---------------------------- MODULE Spec2Model ----------------------------
(***************************************************************************)
(* wsconfig: the document traversal engine, the three passes built on it   *)
(* (firstpass, find_variables, apply_document), the validator and the      *)
(* plugins' run methods, as driven by main() (Spec), and firstpass called   *)
(* on its own, round after round (Discovery).  Beside them: one call of    *)
(* Plugin.execute_impl with and without sudo (ReExec), parse_string on     *)
(* laid-out texts (Parsing), ensure_line run repeatedly on one file        *)
(* (EnsureLineRuns), and Package.run / Package.get_optionals of the YAML   *)
(* variant in src/wsconfig.py (Yaml).                                      *)
(*                                                                         *)
(* Strings are tuples of one-character strings, so that the prefix tests   *)
(* and the placeholder scan of the code are computed, not assumed.         *)
(***************************************************************************)
EXTENDS Integers, Sequences, FiniteSets, TLC

VARIABLES
    document,    \* the parsed tree; decorated in place by validate
    pc,          \* the statement of main() (or of the pass it called) that runs next
    tags,        \* main's `tags`: the seed every pass is called with
    work,        \* traverse_document's local `tags` (the copy made on line 172)
    pos,         \* the generator's position: index path of the next item, <<>> when exhausted
    yielded,     \* what the running traversal has yielded so far: [path, tags]
    entered,     \* paths of the selectors whose body the running traversal recursed into
    discovered,  \* firstpass's discovered_tags / main's found_tags
    vars_found,  \* find_variables' vars_found / main's used_variables
    state,       \* the run state: variables, post_apply, reminders
    log,         \* every call of a plugin's run, in call order: [path, name, sudo, args]
    failed,      \* path of the command whose ApplyError is being prompted about
    error,       \* the exception that ended the process, "" when none
    exitcode,    \* the process's exit status, -1 while running
    called,      \* the post-apply callbacks invoked so far
    dry_run,     \* namespace.dry_run
    ran,         \* how the latest call of a plugin's run ended: [cause, ends]
    yn,          \* apply_document's `yn`: the latest answer to the continuation prompt
    printed,     \* what apply_document printed in dry-run mode: [path, text]
    rounds,      \* the calls of firstpass that have returned: [seed, found]
    listed,      \* the lines main printed when called without `apply`
    scanned,     \* paths of the commands find_variables was handed, in order
    request,     \* one call of Plugin.execute_impl: [name, arguments, world]
    site,        \* how that call ended at its call site, for self.sudo FALSE and TRUE
    process,     \* a wsconfig process started with an argv of its own: [parent, argv, pc, ...]
    text,        \* the text parse_string is called with
    parsed,      \* what parse_string returned or raised: [raised, items]
    file,        \* the content of the file ensure_line is run on
    line,        \* the line ensure_line is run with
    runs,        \* how many times ensure_line has run on the file
    packages,    \* the packages load_yaml returned: name -> instructions
    method,      \* the method called on the package: run or get_optionals
    optionals,   \* the names of the optional packages run was given
    stack,       \* the activations of the method, the innermost last
    executed,    \* the packages whose plugin instructions ran, in order
    ended,       \* how the outermost call ended
    optional_names \* what the outermost get_optionals returned

\* the variables of main() and its passes
main_vars == <<document, pc, tags, work, pos, yielded, entered, discovered,
               vars_found, state, log, failed, error, exitcode, called, dry_run,
               ran, yn, printed, rounds, listed, scanned>>

\* the variables of a self re-executed plugin call
reexec_vars == <<request, site, process>>

\* the variables main() and its passes never touch
\* the variables of one call of the parser
parsing_vars == <<text, parsed>>

\* the variables of the runs of ensure_line on one file
ensure_vars == <<file, line, runs>>

\* the variables of the YAML variant
yaml_vars == <<packages, method, optionals, stack, executed, ended, optional_names>>

others == <<reexec_vars, parsing_vars, ensure_vars, yaml_vars>>

vars == <<main_vars, others>>

---------------------------------------------------------------------------
(* Bounds of the model *)

\* number of nodes (commands and selectors) of a generated document
MaxNodes == 3

---------------------------------------------------------------------------
(* Strings *)

S_define == <<"d","e","f","i","n","e">>
S_sudo == <<"s","u","d","o">>
S_sys == <<"s","y","s",":">>
S_foo == <<"f","o","o">>
S_Foo == <<"F","o","o">>
S_bar == <<"b","a","r">>
S_notfoo == <<"!","f","o","o">>
S_systest == <<"s","y","s",":","t">>
S_sysx == <<"s","y","s",":","x">>
S_42 == <<"4","2">>
S_x == <<"x">>
S_f == <<"-","f">>
S_var == <<"@","@","n","@","@">>
S_var2 == <<"@","@","m","@","@">>
S_varvar == <<"@","@","n","@","@","/","@","@","n","@","@">>
S_val == <<"v">>
S_dpkg == <<"d","p","k","g">>
S_brew == <<"b","r","e","w">>
S_pip == <<"p","i","p">>
S_shell == <<"$">>
S_link == <<"l","i","n","k">>
S_ensure_line == <<"e","n","s","u","r","e","_","l","i","n","e">>
S_mkdir == <<"m","k","d","i","r">>
S_remind == <<"r","e","m","i","n","d">>
S_nosuch == <<"n","o","n","e">>

Range(s) == {s[i] : i \in 1..Len(s)}
Front(s) == SubSeq(s, 1, Len(s) - 1)
Last(s) == s[Len(s)]

startswith(s, prefix) ==
    /\ Len(s) >= Len(prefix)
    /\ SubSeq(s, 1, Len(prefix)) = prefix

---------------------------------------------------------------------------
(* The AST *)

\* a basestring, tagged so that the isinstance tests of the code can be made
Str(s) == [type |-> "str", value |-> s]
And(atoms) == [type |-> "And", items |-> atoms]
Or(clauses) == [type |-> "Or", items |-> clauses]
NoExpr == Or(<<>>)

Command(argv) ==
    [type |-> "Command", argv |-> argv, tagexpr |-> NoExpr, items |-> <<>>]
Selector(tagexpr, items) ==
    [type |-> "Selector", argv |-> <<>>, tagexpr |-> tagexpr, items |-> items]

---------------------------------------------------------------------------
(* Tag expressions *)

parse_tag(tag) ==
    IF Len(tag) > 0 /\ tag[1] = "!" THEN <<FALSE, Tail(tag)>> ELSE <<TRUE, tag>>

\* test_match with the `!` of an atom dropped but not acted on
RECURSIVE test_match_ignores_negation(_, _, _)
test_match_ignores_negation(expr, tagset, sys_only) ==
    IF expr.type = "And"
    THEN \A i \in 1..Len(expr.items) :
            test_match_ignores_negation(expr.items[i], tagset, sys_only)
    ELSE IF expr.type = "Or"
    THEN \E i \in 1..Len(expr.items) :
            test_match_ignores_negation(expr.items[i], tagset, sys_only)
    ELSE LET tag == parse_tag(expr.value)[2]
         IN  IF sys_only /\ ~startswith(tag, S_sys) THEN TRUE ELSE tag \in tagset

\* test_match whose sys_only mode lets only the atoms without `!` pass unchecked
RECURSIVE test_match_checks_negated(_, _, _)
test_match_checks_negated(expr, tagset, sys_only) ==
    IF expr.type = "And"
    THEN \A i \in 1..Len(expr.items) :
            test_match_checks_negated(expr.items[i], tagset, sys_only)
    ELSE IF expr.type = "Or"
    THEN \E i \in 1..Len(expr.items) :
            test_match_checks_negated(expr.items[i], tagset, sys_only)
    ELSE LET required == parse_tag(expr.value)[1]
             tag == parse_tag(expr.value)[2]
         IN  IF sys_only /\ required /\ ~startswith(tag, S_sys)
             THEN TRUE
             ELSE IF required THEN tag \in tagset ELSE tag \notin tagset

RECURSIVE test_match(_, _, _)
test_match(expr, tagset, sys_only) ==
    IF expr.type = "And"
    THEN \A i \in 1..Len(expr.items) : test_match(expr.items[i], tagset, sys_only)
    ELSE IF expr.type = "Or"
    THEN \E i \in 1..Len(expr.items) : test_match(expr.items[i], tagset, sys_only)
    ELSE LET required == parse_tag(expr.value)[1]
             tag == parse_tag(expr.value)[2]
         IN  IF sys_only /\ ~startswith(tag, S_sys)
             THEN TRUE
             ELSE IF required THEN tag \in tagset ELSE tag \notin tagset

---------------------------------------------------------------------------
(* The plugin registry and the validator *)

None == [name |-> <<>>, sudo |-> FALSE]

\* Plugin.__metaclass__.PLUGINS: the names the plugin classes register under
PLUGINS ==
    {S_dpkg, S_brew, S_pip, S_shell, S_link, S_ensure_line, S_mkdir, S_remind}

\* the class attribute `sudo` of each plugin class
ClassSudo(name) == name \in {S_dpkg, S_pip}

\* Plugin.__init__: an explicit sudo overrides the class attribute
Plugin(name, sudo) ==
    [name |-> name, sudo |-> IF sudo # "None" THEN TRUE ELSE ClassSudo(name)]

Decorated(item, command, args, plugin) ==
    [type |-> "Command", argv |-> item.argv, tagexpr |-> NoExpr, items |-> <<>>,
     command |-> command, args |-> args, plugin |-> plugin]

\* validate without the ConfigError of a selector's body reaching the caller
RECURSIVE validate_ignores_nested(_, _)
validate_ignores_nested(doc, plugins) ==
    IF doc = <<>> THEN [raised |-> "", items |-> <<>>]
    ELSE
    LET item == Head(doc)
        one ==
            IF item.type = "Command"
            THEN IF item.argv[1] = S_define
                 THEN [raised |-> "", item |-> Decorated(item, <<>>, <<>>, None)]
                 ELSE IF item.argv[1] = S_sudo /\ Len(item.argv) = 1
                 THEN [raised |-> "sudo must be followed by a command", item |-> item]
                 ELSE LET sudo == IF item.argv[1] = S_sudo THEN "True" ELSE "None"
                          command == IF sudo = "True" THEN item.argv[2] ELSE item.argv[1]
                          args == IF sudo = "True"
                                  THEN SubSeq(item.argv, 3, Len(item.argv))
                                  ELSE Tail(item.argv)
                      IN  IF command \notin plugins
                          THEN [raised |-> "not a valid plugin", item |-> item]
                          ELSE [raised |-> "",
                                item |-> Decorated(item, command, args,
                                                   Plugin(command, sudo))]
            ELSE LET sub == validate_ignores_nested(item.items, plugins)
                 IN  [raised |-> "",
                      item |-> Selector(item.tagexpr,
                                        IF sub.raised # "" THEN item.items
                                        ELSE sub.items)]
    IN  IF one.raised # "" THEN [raised |-> one.raised, items |-> <<>>]
        ELSE LET rest == validate_ignores_nested(Tail(doc), plugins)
             IN  IF rest.raised # "" THEN rest
                 ELSE [raised |-> "", items |-> <<one.item>> \o rest.items]

\* validate: [raised, items]; raised is "" or the ConfigError's message
RECURSIVE validate(_, _)
validate(doc, plugins) ==
    IF doc = <<>> THEN [raised |-> "", items |-> <<>>]
    ELSE
    LET item == Head(doc)
        one ==
            IF item.type = "Command"
            THEN IF item.argv[1] = S_define
                 THEN [raised |-> "", item |-> Decorated(item, <<>>, <<>>, None)]
                 ELSE IF item.argv[1] = S_sudo /\ Len(item.argv) = 1
                 THEN [raised |-> "sudo must be followed by a command", item |-> item]
                 ELSE LET sudo == IF item.argv[1] = S_sudo THEN "True" ELSE "None"
                          command == IF sudo = "True" THEN item.argv[2] ELSE item.argv[1]
                          args == IF sudo = "True"
                                  THEN SubSeq(item.argv, 3, Len(item.argv))
                                  ELSE Tail(item.argv)
                      IN  IF command \notin plugins
                          THEN [raised |-> "not a valid plugin", item |-> item]
                          ELSE [raised |-> "",
                                item |-> Decorated(item, command, args,
                                                   Plugin(command, sudo))]
            ELSE LET sub == validate(item.items, plugins)
                 IN  [raised |-> sub.raised,
                      item |-> Selector(item.tagexpr, sub.items)]
    IN  IF one.raised # "" THEN [raised |-> one.raised, items |-> <<>>]
        ELSE LET rest == validate(Tail(doc), plugins)
             IN  IF rest.raised # "" THEN rest
                 ELSE [raised |-> "", items |-> <<one.item>> \o rest.items]

---------------------------------------------------------------------------
(* Documents the parser can return, and the other inputs *)

TagExpr(clauses) == [type |-> "TagExpr", expr |-> Or(clauses)]

\* foo | !foo | foo, bar | foo bar
ExprSet ==
    { TagExpr(<<And(<<Str(S_foo)>>)>>),
      TagExpr(<<And(<<Str(S_notfoo)>>)>>),
      TagExpr(<<And(<<Str(S_foo)>>), And(<<Str(S_bar)>>)>>),
      TagExpr(<<And(<<Str(S_foo), Str(S_bar)>>)>>) }

\* define bar | remind 42 | pip x
CommandSet ==
    { Command(<<S_define, S_bar>>),
      Command(<<S_remind, S_42>>),
      Command(<<S_pip, S_x>>) }

\* foo, bar {}: the selector that is generated with an empty body too
EmptySelector == Selector(TagExpr(<<And(<<Str(S_foo)>>), And(<<Str(S_bar)>>)>>), <<>>)

\* the item lists of exactly n nodes, and the single items of exactly n nodes
RECURSIVE Forests(_), Trees(_)
Forests(n) ==
    IF n = 0 THEN {<<>>}
    ELSE UNION { { <<t>> \o f : t \in Trees(k), f \in Forests(n - k) } : k \in 1..n }
Trees(n) ==
    IF n = 1 THEN CommandSet \cup {EmptySelector}
    ELSE { Selector(e, f) : e \in ExprSet, f \in Forests(n - 1) }

TreeDocuments == UNION { Forests(n) : n \in 0..MaxNodes }

\* one command of every plugin, in the argument shapes its run() distinguishes,
\* each followed by a remind
PluginCommands ==
    { <<S_dpkg, S_x>>, <<S_dpkg>>, <<S_sudo, S_brew, S_x>>, <<S_brew, S_x>>,
      <<S_pip, S_x, S_x>>, <<S_shell, S_x>>, <<S_sudo, S_shell, S_x, S_x>>,
      <<S_sudo, S_shell, S_x>>,
      <<S_link, S_x, S_42>>, <<S_link, S_f, S_x, S_42>>, <<S_link>>, <<S_link, S_x>>,
      <<S_sudo, S_link, S_x, S_42>>,
      <<S_ensure_line, S_x, S_42>>, <<S_ensure_line, S_x>>,
      <<S_sudo, S_ensure_line, S_x, S_42>>,
      <<S_mkdir, S_x>>, <<S_mkdir, S_x, S_42>>, <<S_sudo, S_mkdir, S_x>>,
      <<S_remind, S_var, S_x>>, <<S_nosuch, S_x>>, <<S_sudo>> }

PluginDocuments ==
    { <<Command(argv), Command(<<S_remind, S_var>>)>> : argv \in PluginCommands }

\* define bar
\* define { remind 42 }
DefineDocument ==
    << Command(<<S_define, S_bar>>),
       Selector(TagExpr(<<And(<<Str(S_define)>>)>>), <<Command(<<S_remind, S_42>>)>>) >>

\* remind 42                remind 42                        remind 42
\* foo { none x }           foo bar { !foo { sudo } }        foo { sudo define bar }
ConfigErrorDocuments ==
    { << Command(<<S_remind, S_42>>),
         Selector(TagExpr(<<And(<<Str(S_foo)>>)>>), <<Command(<<S_nosuch, S_x>>)>>) >>,
      << Command(<<S_remind, S_42>>),
         Selector(TagExpr(<<And(<<Str(S_foo), Str(S_bar)>>)>>),
                  << Selector(TagExpr(<<And(<<Str(S_notfoo)>>)>>),
                              <<Command(<<S_sudo>>)>>) >>) >>,
      << Command(<<S_remind, S_42>>),
         Selector(TagExpr(<<And(<<Str(S_foo)>>)>>),
                  <<Command(<<S_sudo, S_define, S_bar>>)>>) >> }

\* define sys:x
\* sys:x { remind 42 }
SysDefineDocument ==
    << Command(<<S_define, S_sysx>>),
       Selector(TagExpr(<<And(<<Str(S_sysx)>>)>>), <<Command(<<S_remind, S_42>>)>>) >>

\* remind @@n@@/@@n@@ 42
\* foo { remind @@m@@ }
\* remind @@n@@
VariablesDocument ==
    << Command(<<S_remind, S_varvar, S_42>>),
       Selector(TagExpr(<<And(<<Str(S_foo)>>)>>), <<Command(<<S_remind, S_var2>>)>>),
       Command(<<S_remind, S_var>>) >>

\* !foo { define foo
\*        remind 42 }
\* !foo { define bar }
NotFooDefineDocument ==
    << Selector(TagExpr(<<And(<<Str(S_notfoo)>>)>>),
                <<Command(<<S_define, S_foo>>), Command(<<S_remind, S_42>>)>>),
       Selector(TagExpr(<<And(<<Str(S_notfoo)>>)>>), <<Command(<<S_define, S_bar>>)>>) >>

\* Foo bar {}
\* Foo, foo {}
OptionalDocument ==
    << Selector(TagExpr(<<And(<<Str(S_Foo), Str(S_bar)>>)>>), <<>>),
       Selector(TagExpr(<<And(<<Str(S_Foo)>>), And(<<Str(S_foo)>>)>>), <<>>) >>

Documents ==
    TreeDocuments \cup PluginDocuments
        \cup {DefineDocument, SysDefineDocument, VariablesDocument, OptionalDocument,
              NotFooDefineDocument}
        \cup ConfigErrorDocuments

\* foo | !foo | bar | sys:t foo
DiscoveryExprSet ==
    { TagExpr(<<And(<<Str(S_foo)>>)>>),
      TagExpr(<<And(<<Str(S_notfoo)>>)>>),
      TagExpr(<<And(<<Str(S_bar)>>)>>),
      TagExpr(<<And(<<Str(S_systest), Str(S_foo)>>)>>) }

\* define bar | remind 42
DiscoveryCommandSet == { Command(<<S_define, S_bar>>), Command(<<S_remind, S_42>>) }

\* as Forests and Trees, every selector with any body, the empty one too
RECURSIVE DiscoveryForests(_), DiscoveryTrees(_)
DiscoveryForests(n) ==
    IF n = 0 THEN {<<>>}
    ELSE UNION { { <<t>> \o f : t \in DiscoveryTrees(k), f \in DiscoveryForests(n - k) }
                   : k \in 1..n }
DiscoveryTrees(n) ==
    IF n = 1 THEN DiscoveryCommandSet \cup { Selector(e, <<>>) : e \in DiscoveryExprSet }
    ELSE { Selector(e, f) : e \in DiscoveryExprSet, f \in DiscoveryForests(n - 1) }

\* sys:t foo { bar {} }
SysTestDocument ==
    << Selector(TagExpr(<<And(<<Str(S_systest), Str(S_foo)>>)>>),
                <<Selector(TagExpr(<<And(<<Str(S_bar)>>)>>), <<>>)>>) >>

\* foo { bar {} }
FooBarDocument ==
    << Selector(TagExpr(<<And(<<Str(S_foo)>>)>>),
                <<Selector(TagExpr(<<And(<<Str(S_bar)>>)>>), <<>>)>>) >>

\* define foo
\* foo { bar {} }
DefineFooDocument == <<Command(<<S_define, S_foo>>)>> \o FooBarDocument

\* foo { bar {} }
\* define foo
FooDefineDocument == FooBarDocument \o <<Command(<<S_define, S_foo>>)>>

\* sys:t foo bar, sys:x { !sys:t foo {} }
SysOrDocument ==
    << Selector(TagExpr(<<And(<<Str(S_systest), Str(S_foo), Str(S_bar)>>),
                          And(<<Str(S_sysx)>>)>>),
                << Selector(TagExpr(<<And(<<Str(<<"!">> \o S_systest), Str(S_foo)>>)>>),
                            <<>>) >>) >>

\* foo { define sys:x }
\* sys:x bar {}
SysDefineInBodyDocument ==
    << Selector(TagExpr(<<And(<<Str(S_foo)>>)>>), <<Command(<<S_define, S_sysx>>)>>),
       Selector(TagExpr(<<And(<<Str(S_sysx), Str(S_bar)>>)>>), <<>>) >>

\* !foo sys:t {}
\* !sys:t bar {}
NegatedDocument ==
    << Selector(TagExpr(<<And(<<Str(S_notfoo), Str(S_systest)>>)>>), <<>>),
       Selector(TagExpr(<<And(<<Str(<<"!">> \o S_systest), Str(S_bar)>>)>>), <<>>) >>

\* the documents firstpass is called with
DiscoveryDocuments ==
    UNION { DiscoveryForests(n) : n \in 0..MaxNodes }
      \cup { SysTestDocument, FooBarDocument, DefineFooDocument, FooDefineDocument,
             SysOrDocument, SysDefineInBodyDocument, NegatedDocument }

\* init_tags
SeedSets == SUBSET {S_systest, S_foo}

\* init_env() returns tags namespaced sys: only, and never none
EnvTagSets == { {S_systest} }
\* namespace.tags
UserTagSets == SUBSET {S_foo, S_bar}
\* what the operator types at a variable prompt
Values == {S_val}
\* what the operator types at the continuation prompt
Answers == {"y", "n", "", "q"}

---------------------------------------------------------------------------
(* variable_re = (@@[\w]+@@), its findall and its sub *)

WordChars ==
    { "a","b","c","d","e","f","g","h","i","j","k","l","m","n","o","p","q","r",
      "s","t","u","v","w","x","y","z","A","B","C","D","E","F","G","H","I","J",
      "K","L","M","N","O","P","Q","R","S","T","U","V","W","X","Y","Z",
      "0","1","2","3","4","5","6","7","8","9","_" }

\* the last index of the run of word characters that starts at j (j - 1 when none)
RECURSIVE RunEnd(_, _)
RunEnd(s, j) ==
    IF j <= Len(s) /\ s[j] \in WordChars THEN RunEnd(s, j + 1) ELSE j - 1

\* the last index of the match of variable_re that starts at i, 0 when none
MatchEnd(s, i) ==
    IF i + 1 <= Len(s) /\ s[i] = "@" /\ s[i + 1] = "@"
    THEN LET k == RunEnd(s, i + 2)
         IN  IF k >= i + 2 /\ k + 2 <= Len(s) /\ s[k + 1] = "@" /\ s[k + 2] = "@"
             THEN k + 2 ELSE 0
    ELSE 0

\* variable_re.findall(arg), as the set its caller makes of it
RECURSIVE findall(_, _)
findall(s, i) ==
    IF i > Len(s) THEN {}
    ELSE IF MatchEnd(s, i) > 0
    THEN {SubSeq(s, i, MatchEnd(s, i))} \cup findall(s, MatchEnd(s, i) + 1)
    ELSE findall(s, i + 1)

\* a substitution that replaces the first placeholder of the argument only
RECURSIVE sub_first_only(_, _, _)
sub_first_only(s, i, variables) ==
    IF i > Len(s) THEN <<>>
    ELSE IF MatchEnd(s, i) > 0
    THEN variables[SubSeq(s, i, MatchEnd(s, i))] \o SubSeq(s, MatchEnd(s, i) + 1, Len(s))
    ELSE <<s[i]>> \o sub_first_only(s, i + 1, variables)

\* re.sub(variable_re, var_replacer, arg) with var_replacer reading `variables`
RECURSIVE sub(_, _, _)
sub(s, i, variables) ==
    IF i > Len(s) THEN <<>>
    ELSE IF MatchEnd(s, i) > 0
    THEN variables[SubSeq(s, i, MatchEnd(s, i))] \o sub(s, MatchEnd(s, i) + 1, variables)
    ELSE <<s[i]>> \o sub(s, i + 1, variables)

\* the placeholders of an argument list
ArgsVariables(args) == UNION { findall(args[i], 1) : i \in 1..Len(args) }

---------------------------------------------------------------------------
(* The plugins' run methods: the set of ways one call can end, each        *)
(* [cause, ends].  `ends` is how the call returns to apply_document:       *)
(*   "None"   run returned None                                            *)
(*   "result" run returned a true value                                    *)
(*   any other string: the exception run raised                            *)
(* `cause` is what the environment did to make it end so: "spawn" (the     *)
(* program could not be started), "returncode" (it exited nonzero),        *)
(* "return value" (the implementation reported failure), "filesystem" (a   *)
(* file operation raised), "arguments" (the argument list has the wrong    *)
(* shape), "sudo" (the plugin cannot run elevated), "already installed"    *)
(* (brew's own exit code for an installed formula), "" (nothing went       *)
(* wrong).                                                                 *)

R(cause, ends) == [cause |-> cause, ends |-> ends]

\* Plugin.execute_proc for one command line
execute_proc ==
    { R("", "process"), R("spawn", "ApplyError"), R("returncode", "ApplyError") }

\* the first element of a list of outcomes that raised, R("", "None") when none did
FirstRaised(outcomes, quiet) ==
    LET raised == { i \in 1..Len(outcomes) : outcomes[i].ends \notin quiet }
    IN  IF raised = {} THEN R("", "None")
        ELSE outcomes[CHOOSE i \in raised : \A j \in raised : i <= j]

\* a loop of execute_proc calls, one per argument: the first failure is raised
ForEachProc(args) ==
    { FirstRaised(procs, {"process"}) : procs \in [1..Len(args) -> execute_proc] }

\* Plugin.execute_impl, given the ways impl itself can end: called directly, or
\* in a child process whose exit code is nonzero unless impl returned None
execute_impl(sudo, impl) ==
    IF ~sudo THEN impl
    ELSE {R("spawn", "ApplyError")}
         \cup { IF o.ends = "None" THEN R("", "None") ELSE R("returncode", "ApplyError")
                  : o \in impl }

DpkgPlugin_run(sudo, args) == ForEachProc(args)

\* a failed execute_proc is caught: e.process is None when the spawn failed;
\* exit code 1 with 'already installed' in the output is ignored
Homebrew_run(sudo, args) ==
    { IF proc.ends = "process" THEN R("", "None")
      ELSE IF proc.cause = "spawn" THEN R("spawn", "AttributeError")
      ELSE IF installed THEN R("already installed", "None")
      ELSE proc
        : proc \in execute_proc, installed \in BOOLEAN }

PipPlugin_run(sudo, args) == ForEachProc(args)

\* with sudo, execute_proc evaluates ['sudo'] + cmdline[:] on the command string,
\* which is a TypeError
ShellPlugin_run(sudo, args) ==
    IF Len(args) # 1 THEN {R("arguments", "AssertionError")}
    ELSE IF sudo THEN {R("sudo", "TypeError")}
    ELSE { IF proc.ends = "process" THEN R("", "None") ELSE proc : proc \in execute_proc }

LinkPlugin_impl(arguments) ==
    LET rest == Tail(arguments)   \* after basedir = arguments.pop(0)
    IN  IF rest = <<>> THEN {R("arguments", "IndexError")}
        ELSE IF Len(IF rest[1] = S_f THEN Tail(rest) ELSE rest) # 2
        THEN {R("arguments", "ValueError")}
        ELSE {R("", "None"), R("return value", "result"), R("filesystem", "OSError")}

LinkPlugin_run(sudo, args) == execute_impl(sudo, LinkPlugin_impl(<<S_x>> \o args))

EnsureLinePlugin_impl(arguments) ==
    IF Len(arguments) # 2 THEN {R("arguments", "ValueError")}
    ELSE {R("", "None"), R("filesystem", "IOError")}

\* the value execute_impl returns is dropped
EnsureLinePlugin_run(sudo, args) ==
    IF Len(args) # 2 THEN {R("arguments", "ValueError")}
    ELSE { IF o.ends = "result" THEN R(o.cause, "None") ELSE o
             : o \in execute_impl(sudo, EnsureLinePlugin_impl(args)) }

MkdirPlugin_impl(arguments) ==
    IF Len(arguments) # 1 THEN {R("arguments", "AssertionError")}
    ELSE {R("", "None"), R("filesystem", "OSError")}

\* per directory: it exists, or execute_impl is called; the first exception ends the loop
MkdirPlugin_run(sudo, args) ==
    LET each == {R("", "exists")} \cup execute_impl(sudo, MkdirPlugin_impl(<<S_x>>))
    IN  { FirstRaised(dirs, {"exists", "None"}) : dirs \in [1..Len(args) -> each] }

RemindPlugin_run(sudo, args) == {R("", "None")}

\* command.plugin.run(args, state): dispatch on the class of the bound instance
run(plugin, args) ==
    CASE plugin.name = S_dpkg -> DpkgPlugin_run(plugin.sudo, args)
      [] plugin.name = S_brew -> Homebrew_run(plugin.sudo, args)
      [] plugin.name = S_pip -> PipPlugin_run(plugin.sudo, args)
      [] plugin.name = S_shell -> ShellPlugin_run(plugin.sudo, args)
      [] plugin.name = S_link -> LinkPlugin_run(plugin.sudo, args)
      [] plugin.name = S_ensure_line -> EnsureLinePlugin_run(plugin.sudo, args)
      [] plugin.name = S_mkdir -> MkdirPlugin_run(plugin.sudo, args)
      [] plugin.name = S_remind -> RemindPlugin_run(plugin.sudo, args)

\* ' '.join(arguments)
RECURSIVE join(_)
join(args) ==
    IF args = <<>> THEN <<>>
    ELSE IF Len(args) = 1 THEN args[1]
    ELSE args[1] \o <<" ">> \o join(Tail(args))

\* a remind that appends its handler without looking for it in the list
RunState_appends_always(plugin, args, st) ==
    IF plugin.name = S_remind
    THEN [st EXCEPT
            !.reminders = Append(@, join(args)),
            !.post_apply = Append(@, "RemindPlugin.post_apply_handler")]
    ELSE st

\* what run() leaves in the run state: only RemindPlugin writes to it
RunState(plugin, args, st) ==
    IF plugin.name = S_remind
    THEN [st EXCEPT
            !.reminders = Append(@, join(args)),
            !.post_apply =
                IF \E i \in 1..Len(@) : @[i] = "RemindPlugin.post_apply_handler"
                THEN @ ELSE Append(@, "RemindPlugin.post_apply_handler")]
    ELSE st

---------------------------------------------------------------------------
(* traverse_document: the generator's position in the tree *)

RECURSIVE NodeAt(_, _)
NodeAt(items, path) ==
    IF Len(path) = 1 THEN items[path[1]]
    ELSE NodeAt(items[path[1]].items, Tail(path))

\* the list `parent` that the innermost running recurse() loops over
ParentItems(doc, path) ==
    IF Len(path) = 1 THEN doc ELSE NodeAt(doc, Front(path)).items

\* Settle returning to the selector it came from instead of to its next sibling
RECURSIVE Settle_revisits(_, _)
Settle_revisits(doc, path) ==
    IF path = <<>> THEN <<>>
    ELSE IF Last(path) <= Len(ParentItems(doc, path)) THEN path
    ELSE IF Len(path) = 1 THEN <<>>
    ELSE Settle_revisits(doc, Front(path))

\* a for loop that has run out of items returns to the loop of the caller
RECURSIVE Settle(_, _)
Settle(doc, path) ==
    IF path = <<>> THEN <<>>
    ELSE IF Last(path) <= Len(ParentItems(doc, path)) THEN path
    ELSE IF Len(path) = 1 THEN <<>>
    ELSE Settle(doc, [Front(path) EXCEPT ![Len(path) - 1] = @ + 1])

\* recurse(document) is entered
Start(doc) == Settle(doc, <<1>>)
\* the for loop of recurse() takes its next item
Advance(doc, path) == Settle(doc, [path EXCEPT ![Len(path)] = @ + 1])
\* recurse(item.items) is entered
Descend(doc, path) == Settle(doc, Append(path, 1))

\* line 172: the traversal works on tags.copy()
Copy(tagset) == tagset

\* a define that is skipped without updating the set
Update_nothing(tagset, argv) == tagset
\* a define that assigns the set instead of updating it
Update_replaces(tagset, argv) == Range(argv)

\* line 183: tags.update(command.argv)
Update(tagset, argv) == tagset \cup Range(argv)

\* the traversal updating the very set object it was called with
Caller_aliased(seed, working) == working

\* what the caller's set is after the traversal updated its own: the two are
\* different objects (line 172)
Caller(seed, working) == seed

Passes == {"firstpass", "find_variables", "apply_document"}

Item == NodeAt(document, pos)

IsDefine(item) == item.type = "Command" /\ item.argv[1] = S_define

RunState0 == [variables |-> <<>>, post_apply |-> <<>>, reminders |-> <<>>]

---------------------------------------------------------------------------
(* The self re-exec: Plugin.execute_impl and the sentinel branch of main() *)

S_sentinel ==
    <<"W","S","C","O","N","F","I","G","_","C","A","L","L","_","P","L","U","G","I","N">>
S_script == <<"w","s","c","o","n","f","i","g">>
S_defaults == <<"-","-","d","e","f","a","u","l","t","s">>

\* the plugin classes that define the classmethod impl
WithImpl == {S_link, S_ensure_line, S_mkdir}

\* cls.impl(arguments): the ways the implementation can end
impl(name, arguments) ==
    CASE name = S_link -> LinkPlugin_impl(arguments)
      [] name = S_ensure_line -> EnsureLinePlugin_impl(arguments)
      [] name = S_mkdir -> MkdirPlugin_impl(arguments)

\* the argument lists the run methods hand to execute_impl:
\* [basedir] + arguments (link), the two checked arguments (ensure_line),
\* [abspath] (mkdir)
Calls ==
    {[name |-> S_link, arguments |-> a] :
        a \in {<<S_x>>, <<S_x, S_x>>, <<S_x, S_x, S_42>>, <<S_x, S_f, S_x, S_42>>}}
    \cup {[name |-> S_ensure_line, arguments |-> <<S_x, S_42>>],
          [name |-> S_mkdir, arguments |-> <<S_x>>]}

\* a call together with the way its implementation ends in the world it runs in
Requests ==
    UNION {{[name |-> c.name, arguments |-> c.arguments, world |-> o] :
              o \in impl(c.name, c.arguments)} : c \in Calls}

NoProcess == [parent |-> "", argv |-> <<>>, pc |-> "none", steps |-> <<>>,
              returned |-> R("", ""), exitcode |-> -1]

Started(parent, argv) == [NoProcess EXCEPT !.parent = parent, !.argv = argv, !.pc = "main"]

\* lines 77-78: the command line of the child, after `sudo` and the interpreter
cmdline(name, arguments) == <<S_script, S_sentinel, name>> \o arguments

\* the command lines an operator can start the script with in this model
UserArgv ==
    {<<S_script>>, <<S_script, S_defaults>>, <<S_script, S_sentinel>>,
     <<S_script, S_sentinel, S_nosuch>>, <<S_script, S_sentinel, S_remind, S_42>>,
     <<S_script, S_sentinel, S_mkdir>>}

\* script.py line 332
IsSentinel(argv) == Len(argv) > 1 /\ argv[2] = S_sentinel

\* a main() that parses the command line before it looks for the sentinel
steps_parse_first(sentinel, help) ==
    IF sentinel THEN <<"parse_args", "impl">>
    ELSE IF help THEN <<"parse_args">>
    ELSE <<"parse_args", "init_env">>

\* the steps main() performs: line 333 for the sentinel; lines 366-378 otherwise,
\* where a command line without a file and without --defaults ends in the usage text
steps(sentinel, help) ==
    IF sentinel THEN <<"impl">>
    ELSE IF help THEN <<"parse_args">>
    ELSE <<"parse_args", "init_env">>

\* run(): sys.exit(main(sys.argv) or 0); an uncaught exception ends the
\* interpreter with status 1, and so does the 1 that LinkPlugin.impl returns
exit_status(returned) == IF returned.ends \in {"None", "defaults"} THEN 0 ELSE 1

\* main(argv) up to line 378, where `world` is how the implementation ends
main(argv, world) ==
    IF IsSentinel(argv)
    THEN IF Len(argv) < 3 THEN [steps |-> <<>>, returned |-> R("argv", "IndexError")]
         ELSE IF argv[3] \notin PLUGINS THEN [steps |-> <<>>, returned |-> R("argv", "KeyError")]
         ELSE IF argv[3] \notin WithImpl
         THEN [steps |-> <<>>, returned |-> R("argv", "AttributeError")]
         ELSE [steps |-> steps(TRUE, FALSE), returned |-> world]
    ELSE IF Len(argv) > 1 /\ argv[2] = S_defaults
    THEN [steps |-> steps(FALSE, FALSE), returned |-> R("", "defaults")]
    ELSE [steps |-> steps(FALSE, TRUE), returned |-> R("usage", "result")]

\* the ways the implementation named on a command line can end
Worlds(argv) ==
    IF IsSentinel(argv) /\ Len(argv) >= 3 /\ argv[3] \in WithImpl
    THEN impl(argv[3], SubSeq(argv, 4, Len(argv)))
    ELSE {R("", "")}

NoRequest == [name |-> <<>>, arguments |-> <<>>, world |-> R("", "")]
Pending == R("", "pending")

ReExecIdle ==
    /\ request = NoRequest
    /\ site = [sudo \in BOOLEAN |-> Pending]
    /\ process = NoProcess

---------------------------------------------------------------------------
(* The parser: the grammar of parsing.py, computed on a text the way        *)
(* pyparsing computes it. The texts of the model hold no `$`, no quote, no *)
(* `#`: shell_command, quotedString and the ignored comments never match.  *)

alphas ==
    {"a","b","c","d","e","f","g","h","i","j","k","l","m",
     "n","o","p","q","r","s","t","u","v","w","x","y","z",
     "A","B","C","D","E","F","G","H","I","J","K","L","M",
     "N","O","P","Q","R","S","T","U","V","W","X","Y","Z"}
nums == {"0","1","2","3","4","5","6","7","8","9"}
alphanums == alphas \cup nums
\* string.printable less its whitespace (and less the double quote, the backslash and the backquote)
printables ==
    alphanums \cup {"!","#","$","%","&","'","(",")","*","+",",","-",".","/",":",
                    ";","<","=",">","?","@","[","]","^","_","{","|","}","~"}

\* line 78
commandchars == printables \ {"{", "}"}

\* line 81
tagchars == alphanums \cup {":", ".", "_", "-"}

\* ParserElement.DEFAULT_WHITE_CHARS, skipped before every token
whitespace == {" ", "\n", "\t", "\r"}

\* the first position from i on that holds none of `chars`
RECURSIVE skip(_, _, _)
skip(s, i, chars) ==
    IF i <= Len(s) /\ s[i] \in chars THEN skip(s, i + 1, chars) ELSE i

\* the results of a parser element: no match (the caller may try something
\* else), a ParseSyntaxException (nothing else is tried), or a match that ends
\* before `next` with the tokens `value`
NoMatch == [ok |-> FALSE, fatal |-> FALSE, next |-> 0, value |-> <<>>]
SyntaxError == [ok |-> FALSE, fatal |-> TRUE, next |-> 0, value |-> <<>>]
Match(next, value) == [ok |-> TRUE, fatal |-> FALSE, next |-> next, value |-> value]

\* Word(initChars, bodyChars)
Word(s, i, initChars, bodyChars) ==
    LET j == skip(s, i, whitespace)
    IN  IF j <= Len(s) /\ s[j] \in initChars
        THEN LET end == skip(s, j + 1, bodyChars)
             IN  Match(end, SubSeq(s, j, end - 1))
        ELSE NoMatch

\* Literal(c) for a one-character literal
Literal(s, i, c) ==
    LET j == skip(s, i, whitespace)
    IN  IF j <= Len(s) /\ s[j] = c THEN Match(j + 1, <<>>) ELSE NoMatch

\* lineEnd: skips blanks but no newline; matches a newline or the end of the text
lineEnd(s, i) ==
    LET j == skip(s, i, whitespace \ {"\n"})
    IN  IF j <= Len(s) THEN (IF s[j] = "\n" THEN Match(j + 1, <<>>) ELSE NoMatch)
        ELSE IF j = Len(s) + 1 THEN Match(j + 1, <<>>)
        ELSE NoMatch

\* line 92: ZeroOrMore(NotAny(lineEnd) + Word(commandchars))
RECURSIVE argumentWords(_, _, _)
argumentWords(s, i, words) ==
    IF lineEnd(s, i).ok THEN Match(i, words)
    ELSE LET word == Word(s, i, commandchars, commandchars)
         IN  IF word.ok THEN argumentWords(s, word.next, Append(words, word.value))
             ELSE Match(i, words)

\* a command that only the end of a line ends
FollowedBy_never(s, i, c) == FALSE

\* FollowedBy(c): a lookahead
FollowedBy(s, i, c) == Literal(s, i, c).ok

\* lines 90-93 and 194
internal_command(s, i) ==
    LET first == Word(s, i, alphas, alphanums \cup {"_"})
    IN  IF ~first.ok THEN NoMatch
        ELSE LET rest == argumentWords(s, first.next, <<first.value>>)
                 eol == lineEnd(s, rest.next)
             IN  IF eol.ok THEN Match(eol.next, Command(rest.value))
                 ELSE IF FollowedBy(s, rest.next, "}")
                 THEN Match(rest.next, Command(rest.value))
                 ELSE NoMatch

\* line 109: Combine(Optional('!') + Word(alphas, tagchars))
tagWord(s, i) ==
    LET j == skip(s, i, whitespace)
        k == IF j <= Len(s) /\ s[j] = "!" THEN j + 1 ELSE j
    IN  IF k <= Len(s) /\ s[k] \in alphas
        THEN LET end == skip(s, k + 1, tagchars)
             IN  Match(end, SubSeq(s, j, end - 1))
        ELSE NoMatch

\* lines 109 and 195: OneOrMore(tag), made an And
RECURSIVE tagexprAnd(_, _, _)
tagexprAnd(s, i, atoms) ==
    LET atom == tagWord(s, i)
    IN  IF atom.ok THEN tagexprAnd(s, atom.next, Append(atoms, Str(atom.value)))
        ELSE IF atoms = <<>> THEN NoMatch
        ELSE Match(i, And(atoms))

\* lines 110-111 and 196: delimitedList(tagexprAnd), made a TagExpr
RECURSIVE tagexprOr(_, _, _)
tagexprOr(s, i, clauses) ==
    LET comma == IF clauses = <<>> THEN Match(i, <<>>) ELSE Literal(s, i, ",")
        clause == IF comma.ok THEN tagexprAnd(s, comma.next, <<>>) ELSE NoMatch
    IN  IF clause.ok THEN tagexprOr(s, clause.next, Append(clauses, clause.value))
        ELSE IF clauses = <<>> THEN NoMatch
        ELSE Match(i, TagExpr(clauses))

RECURSIVE itemsExpr(_, _, _)

\* lines 112 and 197: tagexpr - '{' - items - '}'; after the tag expression
\* nothing is backtracked
selectorExpr(s, i) ==
    LET tagexpr == tagexprOr(s, i, <<>>)
    IN  IF ~tagexpr.ok THEN NoMatch
        ELSE LET open == Literal(s, tagexpr.next, "{")
             IN  IF ~open.ok THEN SyntaxError
                 ELSE LET body == itemsExpr(s, open.next, <<>>)
                      IN  IF ~body.ok THEN SyntaxError
                          ELSE LET close == Literal(s, body.next, "}")
                               IN  IF ~close.ok THEN SyntaxError
                                   ELSE Match(close.next,
                                              Selector(tagexpr.value, body.value))

\* line 115: command | selector
itemExpr(s, i) ==
    LET command == internal_command(s, i)
    IN  IF command.ok THEN command ELSE selectorExpr(s, i)

\* line 116: ZeroOrMore(item)
itemsExpr(s, i, found) ==
    LET one == itemExpr(s, i)
    IN  IF one.ok THEN itemsExpr(s, one.next, Append(found, one.value))
        ELSE IF one.fatal THEN SyntaxError
        ELSE Match(i, found)

\* lines 119 and 211: root.parseString, root being items + StringEnd()
parse_string(s) ==
    LET doc == itemsExpr(s, 1, <<>>)
    IN  IF doc.ok /\ skip(s, doc.next, whitespace) > Len(s)
        THEN [raised |-> "", items |-> doc.value]
        ELSE [raised |-> "ParseException", items |-> <<>>]

NotParsed == [raised |-> "(not parsed)", items |-> <<>>]

ParsingIdle ==
    /\ text = <<>>
    /\ parsed = NotParsed

---------------------------------------------------------------------------
(* EnsureLinePlugin.impl on the content of a file *)

\* f.readlines(): the lines of the content, each with its newline; the last one
\* has none when the content does not end in a newline
RECURSIVE readlines(_)
readlines(content) ==
    IF content = <<>> THEN <<>>
    ELSE LET ends == { i \in 1..Len(content) : content[i] = "\n" }
         IN  IF ends = {} THEN <<content>>
             ELSE LET first == CHOOSE i \in ends : \A j \in ends : i <= j
                  IN  <<SubSeq(content, 1, first)>>
                        \o readlines(SubSeq(content, first + 1, Len(content)))

\* s.rstrip(chars)
RECURSIVE rstrip(_, _)
rstrip(s, chars) ==
    IF s # <<>> /\ s[Len(s)] \in chars THEN rstrip(SubSeq(s, 1, Len(s) - 1), chars) ELSE s

\* plugins.py lines 221-224: the content the file is left with; a+ creates a
\* missing file empty, and writes at the end of the file
ensure_line(content, l) ==
    IF l \in { rstrip(readlines(content)[i], {"\n", "\r"}) : i \in 1..Len(readlines(content)) }
    THEN content
    ELSE content \o l \o <<"\n">>

EnsureLineIdle ==
    /\ file = <<>>
    /\ line = <<>>
    /\ runs = 0

---------------------------------------------------------------------------
(* The YAML variant (src/wsconfig.py): packages, references, Package.run *)

\* the names of the packages of a configuration file
Names == {"p", "q"}

\* a name no package of the file has
S_missing == "z"

MaxInstructions == 2

\* the recursion limit of the interpreter (sys.getrecursionlimit()), larger
\* than the deepest nesting packages without a reference cycle can reach
MaxDepth == 3

\* Package.instructions entries: (plugin, arguments, raw_value) and, for
\* `<name>` and `<name?>`, (reference, is_optional)
PLUGIN == "PLUGIN"
REFERENCE == "REFERENCE"

PluginInstruction == [type |-> PLUGIN, reference |-> "", is_optional |-> FALSE]

Reference(name, is_optional) ==
    [type |-> REFERENCE, reference |-> name, is_optional |-> is_optional]

instruction_type(i) == i.type

Instructions ==
    {PluginInstruction} \cup { Reference(n, o) : n \in Names \cup {S_missing}, o \in BOOLEAN }

\* the package dictionaries a file can describe
Inputs == [Names -> UNION { [1..n -> Instructions] : n \in 0..MaxInstructions }]

\* load_yaml resolves every reference by name and raises ConfigError for a
\* name that is no package; it looks for nothing else
load_yaml_accepts(input) ==
    \A n \in DOMAIN input : \A k \in 1..Len(input[n]) :
        instruction_type(input[n][k]) = REFERENCE => input[n][k].reference \in DOMAIN input

\* one activation of Package.run or Package.get_optionals: the package, the
\* index of the instruction the for loop is at, and the result list so far
Frame(name) == [package |-> name, index |-> 1, result |-> <<>>]

YamlIdle ==
    /\ packages = <<>>
    /\ method = ""
    /\ optionals = {}
    /\ stack = <<>>
    /\ executed = <<>>
    /\ ended = ""
    /\ optional_names = <<>>

---------------------------------------------------------------------------
(* main() *)

Init ==
    /\ document \in Documents
    /\ tags \in EnvTagSets
    /\ pc = "validate"
    /\ work = {}
    /\ pos = <<>>
    /\ yielded = <<>>
    /\ entered = {}
    /\ discovered = {}
    /\ vars_found = {}
    /\ state = RunState0
    /\ log = <<>>
    /\ failed = <<>>
    /\ error = ""
    /\ exitcode = -1
    /\ called = <<>>
    /\ dry_run = FALSE
    /\ ran = R("", "")
    /\ yn = "(unbound)"
    /\ printed = <<>>
    /\ rounds = <<>>
    /\ listed = <<>>
    /\ scanned = <<>>
    /\ ReExecIdle
    /\ ParsingIdle
    /\ EnsureLineIdle
    /\ YamlIdle

\* an uncaught exception ends the process with a traceback and status 1
Raise(exception) ==
    /\ error' = exception
    /\ exitcode' = 1
    /\ pc' = "exit"

\* a pass calls traverse_document(document, seed)
Traverse(pass, doc, seed) ==
    /\ pc' = pass
    /\ work' = Copy(seed)
    /\ pos' = Start(doc)
    /\ yielded' = <<>>
    /\ entered' = {}

\* lines 384-390: validate(document, ...), tags.update(namespace.tags),
\* and firstpass is called
Validate ==
    /\ pc = "validate"
    /\ LET v == validate(document, PLUGINS)
       IN  IF v.raised # ""
           THEN /\ Raise("ConfigError")
                /\ UNCHANGED <<document, tags, work, pos, yielded, entered>>
           ELSE /\ document' = v.items
                /\ \E user \in UserTagSets : tags' = tags \cup user
                /\ Traverse("firstpass", v.items, tags')
                /\ UNCHANGED <<error, exitcode>>
    /\ UNCHANGED <<discovered, vars_found, state, log, failed, called, dry_run, ran, yn, printed, rounds, listed, scanned, others>>

\* lines 179-184: a define command updates the working set and is not yielded
Define ==
    /\ pc \in Passes
    /\ pos # <<>>
    /\ IsDefine(Item)
    /\ work' = Update(work, Item.argv)
    /\ tags' = Caller(tags, work')
    /\ pos' = Advance(document, pos)
    /\ UNCHANGED <<document, pc, yielded, entered, discovered, vars_found, state,
                   log, failed, error, exitcode, called, dry_run, ran, yn, printed, rounds, listed, scanned, others>>

\* Collect without the test of the clause's sys: conditions
Collect_ignores_sys(selector, tagset) ==
    UNION { { parse_tag(a.value)[2] : a \in
                { b \in Range(and_expr.items) :
                    /\ ~startswith(parse_tag(b.value)[2], S_sys)
                    /\ parse_tag(b.value)[2] \notin tagset } }
              : and_expr \in Range(selector.tagexpr.expr.items) }

\* Collect without the exclusion of the tags that are active
Collect_keeps_active(selector, tagset) ==
    UNION { IF test_match(and_expr, tagset, TRUE)
            THEN { parse_tag(a.value)[2] : a \in
                     { b \in Range(and_expr.items) :
                         ~startswith(parse_tag(b.value)[2], S_sys) } }
            ELSE {}
              : and_expr \in Range(selector.tagexpr.expr.items) }

\* lines 246-251: what firstpass collects from one yielded selector
Collect(selector, tagset) ==
    UNION { IF test_match(and_expr, tagset, TRUE)
            THEN { parse_tag(a.value)[2] : a \in
                     { b \in Range(and_expr.items) :
                         /\ ~startswith(parse_tag(b.value)[2], S_sys)
                         /\ parse_tag(b.value)[2] \notin tagset } }
            ELSE {}
              : and_expr \in Range(selector.tagexpr.expr.items) }

\* a body that is entered as soon as the selector's sys: conditions hold
Follow_sys_only(selector, tagset) == test_match(selector.tagexpr.expr, tagset, TRUE)

\* a body that is entered whatever the selector's expression
Follow_always(selector, tagset) == TRUE

\* line 189: the body is entered if the whole expression matches
Follow(selector, tagset) == test_match(selector.tagexpr.expr, tagset, FALSE)

\* lines 186-191: a selector is yielded; its body is entered if it matches.
\* Only firstpass does anything with a yielded selector.
YieldSelector ==
    /\ pc \in Passes
    /\ pos # <<>>
    /\ Item.type = "Selector"
    /\ yielded' = Append(yielded, [path |-> pos, tags |-> work])
    /\ discovered' = IF pc = "firstpass" THEN discovered \cup Collect(Item, work)
                     ELSE discovered
    /\ IF Follow(Item, work)
       THEN /\ pos' = Descend(document, pos)
            /\ entered' = entered \cup {pos}
       ELSE /\ pos' = Advance(document, pos)
            /\ entered' = entered
    /\ UNCHANGED <<document, pc, tags, work, vars_found, state, log, failed,
                   error, exitcode, called, dry_run, ran, yn, printed, rounds, listed, scanned, others>>

\* lines 237-239: firstpass skips a yielded command
FirstpassCommand ==
    /\ pc = "firstpass"
    /\ pos # <<>>
    /\ Item.type = "Command" /\ ~IsDefine(Item)
    /\ yielded' = Append(yielded, [path |-> pos, tags |-> work])
    /\ pos' = Advance(document, pos)
    /\ UNCHANGED <<document, pc, tags, work, entered, discovered, vars_found,
                   state, log, failed, error, exitcode, called, dry_run, ran, yn, printed, rounds, listed, scanned, others>>

\* line 396: the heading of the tag listing
S_optional ==
    <<"O","p","t","i","o","n","a","l"," ","t","a","g","s",
      " ","f","o","r"," ","y","o","u"," ","t","o"," ","p",
      "a","s","s"," ","t","o"," ","a","p","p","l","y",":">>

\* an isupper that holds of every character
isupper_any(c) == TRUE

\* str.isupper on one character
isupper(c) ==
    c \in {"A","B","C","D","E","F","G","H","I","J","K","L","M",
           "N","O","P","Q","R","S","T","U","V","W","X","Y","Z"}

\* the orders in which a loop over a set can visit its elements
Orders(set) ==
    { order \in [1..Cardinality(set) -> set] :
        \A i, j \in 1..Cardinality(set) : order[i] = order[j] => i = j }

\* lines 253, 390-406: firstpass returns; without `apply` the tags are listed
\* and main returns 0, with it find_variables is called
FirstpassReturn ==
    /\ pc = "firstpass"
    /\ pos = <<>>
    /\ \E apply \in BOOLEAN :
         IF ~apply
         THEN /\ pc' = "exit"
              /\ exitcode' = 0
              /\ \E order \in Orders({ tag \in discovered : isupper(tag[1]) }) :
                    listed' = <<S_optional>>
                                \o [i \in 1..Len(order) |-> <<" ", " ">> \o order[i]]
              /\ UNCHANGED <<work, pos, yielded, entered>>
         ELSE /\ Traverse("find_variables", document, tags)
              /\ UNCHANGED <<exitcode, listed>>
    /\ rounds' = Append(rounds, [seed |-> tags, found |-> discovered])
    /\ UNCHANGED <<document, tags, discovered, vars_found, state, log, failed,
                   error, called, dry_run, ran, yn, printed, scanned, others>>

\* lines 263-269: find_variables scans the arguments of a yielded command
FindVariablesCommand ==
    /\ pc = "find_variables"
    /\ pos # <<>>
    /\ Item.type = "Command" /\ ~IsDefine(Item)
    /\ yielded' = Append(yielded, [path |-> pos, tags |-> work])
    /\ vars_found' = vars_found \cup ArgsVariables(Item.args)
    /\ scanned' = Append(scanned, pos)
    /\ pos' = Advance(document, pos)
    /\ UNCHANGED <<document, pc, tags, work, entered, discovered, state, log,
                   failed, error, exitcode, called, dry_run, ran, yn, printed, rounds,
                   listed, others>>

\* lines 271, 405-407: find_variables returns
FindVariablesReturn ==
    /\ pc = "find_variables"
    /\ pos = <<>>
    /\ pc' = "variables"
    /\ UNCHANGED <<document, tags, work, pos, yielded, entered, discovered,
                   vars_found, state, log, failed, error, exitcode, called, dry_run, ran, yn, printed, rounds, listed, scanned, others>>

\* lines 409-411: the operator gives the value of one variable
PromptVariable ==
    /\ pc = "variables"
    /\ \E var \in vars_found \ DOMAIN state.variables : \E value \in Values :
         state' = [state EXCEPT !.variables = @ @@ (var :> value)]
    /\ UNCHANGED <<document, pc, tags, work, pos, yielded, entered, discovered,
                   vars_found, log, failed, error, exitcode, called, dry_run, ran, yn, printed, rounds, listed, scanned, others>>

\* an execution pass that begins whatever has been asked
Ready_at_once(found, given) == TRUE

\* lines 409-411: the loop over used_variables has asked for every variable
Ready(found, given) == found \subseteq given

\* lines 414-415: apply_document is called
Apply ==
    /\ pc = "variables"
    /\ Ready(vars_found, DOMAIN state.variables)
    /\ dry_run' \in BOOLEAN
    /\ Traverse("apply_document", document, tags)
    /\ UNCHANGED <<document, tags, discovered, vars_found, state, log, failed,
                   error, exitcode, called, ran, yn, printed, rounds, listed, scanned, others>>

\* lines 286-289: the arguments with every placeholder replaced
Substituted(args, variables) == [i \in 1..Len(args) |-> sub(args[i], 1, variables)]

\* lines 298-308: how apply_document goes on after run() ended with `outcome`
AfterRun(outcome) ==
    IF outcome = "None" THEN "continue"
    ELSE IF outcome \in {"result", "ApplyError"} THEN "prompt"
    ELSE "raise"

\* Command.__str__, which `print command` writes
str(command) == <<"e","x","e","c","(">> \o join(command.argv) \o <<")">>

\* a dry run that calls the plugins all the same
Invoke_always(dry) == TRUE

\* lines 291-293: in dry-run mode the command is printed and the loop continues
Invoke(dry) == ~dry

\* lines 284-301: apply_document handles a yielded command
ApplyCommand ==
    /\ pc = "apply_document"
    /\ pos # <<>>
    /\ Item.type = "Command" /\ ~IsDefine(Item)
    /\ yielded' = Append(yielded, [path |-> pos, tags |-> work])
    /\ IF ~(ArgsVariables(Item.args) \subseteq DOMAIN state.variables)
       THEN /\ Raise("KeyError")
            /\ UNCHANGED <<pos, state, log, failed, ran, printed>>
       ELSE IF ~Invoke(dry_run)
       THEN /\ printed' = Append(printed, [path |-> pos, text |-> str(Item)])
            /\ pos' = Advance(document, pos)
            /\ UNCHANGED <<pc, state, log, failed, error, exitcode, ran>>
       ELSE LET args == Substituted(Item.args, state.variables)
            IN  /\ printed' = printed
                /\ log' = Append(log, [path |-> pos, name |-> Item.plugin.name,
                                       sudo |-> Item.plugin.sudo, args |-> args])
                /\ state' = RunState(Item.plugin, args, state)
                /\ \E outcome \in run(Item.plugin, args) :
                     /\ ran' = outcome
                     /\ CASE AfterRun(outcome.ends) = "continue" ->
                               /\ pos' = Advance(document, pos)
                               /\ UNCHANGED <<pc, failed, error, exitcode>>
                          [] AfterRun(outcome.ends) = "prompt" ->
                               /\ pc' = "prompt"
                               /\ failed' = pos
                               /\ UNCHANGED <<pos, error, exitcode>>
                          [] AfterRun(outcome.ends) = "raise" ->
                               /\ Raise(outcome.ends)
                               /\ UNCHANGED <<pos, failed>>
    /\ UNCHANGED <<document, tags, work, entered, discovered, vars_found,
                   called, dry_run, yn, rounds, listed, scanned, others>>

\* an answer of "n" that does not end the run
Decision_n_continues(answer) ==
    IF answer \notin {"y", "n", ""} THEN "ask again" ELSE "continue"
\* the empty answer taken as "n"
Decision_default_no(answer) ==
    IF answer \notin {"y", "n", ""} THEN "ask again"
    ELSE IF answer \in {"n", ""} THEN "exit"
    ELSE "continue"

\* lines 302-308: what the answer to 'Do you want to continue (y/n)? [y]' leads to
Decision(answer) ==
    IF answer \notin {"y", "n", ""} THEN "ask again"
    ELSE IF answer = "n" THEN "exit"
    ELSE "continue"

\* lines 302-308: the operator answers the continuation prompt
Answer ==
    /\ pc = "prompt"
    /\ \E answer \in Answers :
         /\ yn' = answer
         /\ CASE Decision(answer) = "ask again" ->
                   UNCHANGED <<pc, pos, failed, error, exitcode, ran>>
              [] Decision(answer) = "exit" ->
                   /\ pc' = "exit"
                   /\ error' = "SystemExit"
                   /\ exitcode' = 1
                   /\ UNCHANGED <<pos, failed, ran>>
              [] Decision(answer) = "continue" ->
                   /\ pc' = "apply_document"
                   /\ pos' = Advance(document, pos)
                   /\ failed' = <<>>
                   /\ ran' = R("", "")
                   /\ UNCHANGED <<error, exitcode>>
    /\ UNCHANGED <<document, tags, work, yielded, entered, discovered,
                   vars_found, state, log, called, dry_run, printed, rounds, listed, scanned, others>>

\* line 415: apply_document returns
ApplyReturn ==
    /\ pc = "apply_document"
    /\ pos = <<>>
    /\ pc' = "post_apply"
    /\ UNCHANGED <<document, tags, work, pos, yielded, entered, discovered,
                   vars_found, state, log, failed, error, exitcode, called, dry_run, ran, yn, printed, rounds, listed, scanned, others>>

\* lines 418-419: the next post-apply handler is called
PostApply ==
    /\ pc = "post_apply"
    /\ Len(called) < Len(state.post_apply)
    /\ called' = Append(called, state.post_apply[Len(called) + 1])
    /\ UNCHANGED <<document, pc, tags, work, pos, yielded, entered, discovered,
                   vars_found, state, log, failed, error, exitcode, dry_run, ran, yn, printed, rounds, listed, scanned, others>>

\* lines 419-423: main returns None and run() exits with 0
Return ==
    /\ pc = "post_apply"
    /\ Len(called) = Len(state.post_apply)
    /\ pc' = "exit"
    /\ exitcode' = 0
    /\ UNCHANGED <<document, tags, work, pos, yielded, entered, discovered,
                   vars_found, state, log, failed, error, called, dry_run, ran, yn, printed, rounds, listed, scanned, others>>

Next ==
    \/ Validate
    \/ Define
    \/ YieldSelector
    \/ FirstpassCommand
    \/ FirstpassReturn
    \/ FindVariablesCommand
    \/ FindVariablesReturn
    \/ PromptVariable
    \/ Apply
    \/ ApplyCommand
    \/ Answer
    \/ ApplyReturn
    \/ PostApply
    \/ Return

Spec == Init /\ [][Next]_vars

---------------------------------------------------------------------------
(* firstpass(document, init_tags) called on its own, again and again, each *)
(* time with the tags it returned added to init_tags                       *)

DiscoveryInit ==
    /\ document \in DiscoveryDocuments
    /\ tags \in SeedSets
    /\ pc = "firstpass"
    /\ work = Copy(tags)
    /\ pos = Start(document)
    /\ yielded = <<>>
    /\ entered = {}
    /\ discovered = {}
    /\ vars_found = {}
    /\ state = RunState0
    /\ log = <<>>
    /\ failed = <<>>
    /\ error = ""
    /\ exitcode = -1
    /\ called = <<>>
    /\ dry_run = FALSE
    /\ ran = R("", "")
    /\ yn = "(unbound)"
    /\ printed = <<>>
    /\ rounds = <<>>
    /\ listed = <<>>
    /\ scanned = <<>>
    /\ ReExecIdle
    /\ ParsingIdle
    /\ EnsureLineIdle
    /\ YamlIdle

\* firstpass returned tags: they are added to the seed and it is called again
Rerun ==
    /\ pc = "firstpass"
    /\ pos = <<>>
    /\ discovered # {}
    /\ rounds' = Append(rounds, [seed |-> tags, found |-> discovered])
    /\ tags' = tags \cup discovered
    /\ discovered' = {}
    /\ Traverse("firstpass", document, tags')
    /\ UNCHANGED <<document, vars_found, state, log, failed, error, exitcode,
                   called, dry_run, ran, yn, printed, listed, scanned, others>>

\* firstpass returned no tag: there is nothing to add
Settled ==
    /\ pc = "firstpass"
    /\ pos = <<>>
    /\ discovered = {}
    /\ rounds' = Append(rounds, [seed |-> tags, found |-> discovered])
    /\ pc' = "settled"
    /\ UNCHANGED <<document, tags, work, pos, yielded, entered, discovered,
                   vars_found, state, log, failed, error, exitcode, called,
                   dry_run, ran, yn, printed, listed, scanned, others>>

DiscoveryNext ==
    \/ Define
    \/ YieldSelector
    \/ FirstpassCommand
    \/ Rerun
    \/ Settled

Discovery == DiscoveryInit /\ [][DiscoveryNext]_vars

---------------------------------------------------------------------------
(* One call of execute_impl made both ways, and the processes it starts *)

\* main's variables while no document is being processed
MainIdle ==
    /\ document = <<>>
    /\ tags = {}
    /\ pc = "idle"
    /\ work = {}
    /\ pos = <<>>
    /\ yielded = <<>>
    /\ entered = {}
    /\ discovered = {}
    /\ vars_found = {}
    /\ state = RunState0
    /\ log = <<>>
    /\ failed = <<>>
    /\ error = ""
    /\ exitcode = -1
    /\ called = <<>>
    /\ dry_run = FALSE
    /\ ran = R("", "")
    /\ yn = "(unbound)"
    /\ printed = <<>>
    /\ rounds = <<>>
    /\ listed = <<>>
    /\ scanned = <<>>

ReExecInit ==
    /\ MainIdle
    /\ request \in Requests
    /\ site = [sudo \in BOOLEAN |-> Pending]
    /\ process \in {NoProcess} \cup {Started("user", argv) : argv \in UserArgv}
    /\ ParsingIdle
    /\ EnsureLineIdle
    /\ YamlIdle

\* plugins.py lines 70-71: without sudo the implementation is called in process
Direct ==
    /\ site[FALSE] = Pending
    /\ site' = [site EXCEPT ![FALSE] = request.world]
    /\ UNCHANGED <<main_vars, parsing_vars, ensure_vars, yaml_vars, request, process>>

\* plugins.py lines 76-81: with sudo the script is started again; an OSError of
\* Popen becomes an ApplyError
Spawn ==
    /\ site[TRUE] = Pending
    /\ process.pc = "none"
    /\ \/ /\ site' = [site EXCEPT ![TRUE] = R("spawn", "ApplyError")]
          /\ UNCHANGED process
       \/ /\ process' = Started("sudo", cmdline(request.name, request.arguments))
          /\ UNCHANGED site
    /\ UNCHANGED <<main_vars, parsing_vars, ensure_vars, yaml_vars, request>>

\* script.py lines 311-378 and 422-423: a started process runs main() and exits
Main ==
    /\ process.pc = "main"
    /\ \E world \in Worlds(process.argv) :
         /\ process.parent = "sudo" => world = request.world
         /\ LET m == main(process.argv, world)
            IN  process' = [process EXCEPT !.pc = "exited", !.steps = m.steps,
                                           !.returned = m.returned,
                                           !.exitcode = exit_status(m.returned)]
    /\ UNCHANGED <<main_vars, parsing_vars, ensure_vars, yaml_vars, request, site>>

\* plugins.py lines 82-85: the parent waits; a nonzero return code is an ApplyError
Wait ==
    /\ process.pc = "exited"
    /\ process.parent = "sudo"
    /\ site[TRUE] = Pending
    /\ site' = [site EXCEPT ![TRUE] =
                  IF process.exitcode # 0 THEN R("returncode", "ApplyError")
                  ELSE R("", "None")]
    /\ UNCHANGED <<main_vars, parsing_vars, ensure_vars, yaml_vars, request, process>>

ReExecNext ==
    \/ Direct
    \/ Spawn
    \/ Main
    \/ Wait

ReExec == ReExecInit /\ [][ReExecNext]_vars

---------------------------------------------------------------------------
(* The parser called on a selector written with every layout around its braces *)

S_cmd == <<"c","m","d">>

\* nothing, a blank, a newline
Gaps == {<<>>, <<" ">>, <<"\n">>}

\* `bar { cmd } cmd` with a gap at each side of each brace, with or without the
\* command in the body and the command after the selector
Layouts ==
    [before_open : Gaps, after_open : Gaps, before_close : Gaps, after_close : Gaps,
     body : {<<>>, S_cmd}, after : {<<>>, S_cmd}]

Render(l) ==
    S_bar \o l.before_open \o <<"{">> \o l.after_open \o l.body
          \o l.before_close \o <<"}">> \o l.after_close \o l.after

Texts == { Render(l) : l \in Layouts }

ParsingInit ==
    /\ MainIdle
    /\ ReExecIdle
    /\ EnsureLineIdle
    /\ YamlIdle
    /\ text \in Texts
    /\ parsed = NotParsed

\* parse_string(text)
Parse ==
    /\ parsed = NotParsed
    /\ parsed' = parse_string(text)
    /\ UNCHANGED <<main_vars, reexec_vars, ensure_vars, yaml_vars, text>>

ParsingNext == Parse

Parsing == ParsingInit /\ [][ParsingNext]_vars

---------------------------------------------------------------------------
(* ensure_line run again and again on one file with one line *)

MaxFileLen == 3
MaxRuns == 3

\* the contents a file can have before the first run
Contents == UNION { [1..n -> {"a", "b", "\n"}] : n \in 0..MaxFileLen }

\* the lines ensure_line is called with
Lines == {<<"a">>, <<"b">>, <<"a", "b">>}

EnsureLineInit ==
    /\ MainIdle
    /\ ReExecIdle
    /\ ParsingIdle
    /\ YamlIdle
    /\ file \in Contents
    /\ line \in Lines
    /\ runs = 0

\* one run of EnsureLinePlugin.impl that opens the file
EnsureLine ==
    /\ runs < MaxRuns
    /\ file' = ensure_line(file, line)
    /\ runs' = runs + 1
    /\ UNCHANGED <<main_vars, reexec_vars, parsing_vars, yaml_vars, line>>

EnsureLineNext == EnsureLine

EnsureLineRuns == EnsureLineInit /\ [][EnsureLineNext]_vars

---------------------------------------------------------------------------
(* Package.run and Package.get_optionals on the packages load_yaml returned *)

YamlInit ==
    /\ MainIdle
    /\ ReExecIdle
    /\ ParsingIdle
    /\ EnsureLineIdle
    /\ packages \in { input \in Inputs : load_yaml_accepts(input) }
    /\ method \in {"run", "get_optionals"}
    /\ optionals \in IF method = "run" THEN SUBSET Names ELSE {{}}
    /\ \E to_install \in Names : stack = <<Frame(to_install)>>
    /\ executed = <<>>
    /\ ended = ""
    /\ optional_names = <<>>

\* the activation on top of the stack and the instruction its loop is at
Top == stack[Len(stack)]

AtInstruction == Len(stack) > 0 /\ Top.index <= Len(packages[Top.package])

Current == packages[Top.package][Top.index]

\* the loop of the top activation moves to its next instruction
NextInstruction(frames) ==
    [frames EXCEPT ![Len(frames)].index = @ + 1]

\* a call from the top activation: one more activation, or RuntimeError
\* (maximum recursion depth exceeded) out of all of them
Call(name) ==
    IF Len(stack) < MaxDepth
    THEN /\ stack' = Append(stack, Frame(name))
         /\ ended' = ended
    ELSE /\ stack' = <<>>
         /\ ended' = "RuntimeError"

\* wsconfig.py lines 170-184: a plugin instruction runs; when it fails the
\* user is asked, and n exits
RunPlugin ==
    /\ method = "run"
    /\ AtInstruction
    /\ instruction_type(Current) = PLUGIN
    /\ executed' = Append(executed, Top.package)
    /\ \E answer \in {"", "y", "n"}, result \in BOOLEAN :
         IF result /\ answer = "n"
         THEN stack' = <<>> /\ ended' = "SystemExit"
         ELSE stack' = NextInstruction(stack) /\ ended' = ended
    /\ UNCHANGED <<main_vars, reexec_vars, parsing_vars, ensure_vars,
                   packages, method, optionals, optional_names>>

\* wsconfig.py lines 166-169: a reference is run when it is not optional or its
\* name is among the optionals
RunReference ==
    /\ method = "run"
    /\ AtInstruction
    /\ instruction_type(Current) = REFERENCE
    /\ IF ~Current.is_optional \/ Current.reference \in optionals
       THEN Call(Current.reference)
       ELSE stack' = NextInstruction(stack) /\ ended' = ended
    /\ UNCHANGED <<main_vars, reexec_vars, parsing_vars, ensure_vars,
                   packages, method, optionals, executed, optional_names>>

\* the for loop of run is over: back in the caller's loop, or out of run
RunReturn ==
    /\ method = "run"
    /\ Len(stack) > 0
    /\ ~AtInstruction
    /\ IF Len(stack) = 1
       THEN stack' = <<>> /\ ended' = "returned"
       ELSE stack' = NextInstruction(SubSeq(stack, 1, Len(stack) - 1)) /\ ended' = ended
    /\ UNCHANGED <<main_vars, reexec_vars, parsing_vars, ensure_vars,
                   packages, method, optionals, executed, optional_names>>

\* wsconfig.py lines 190-191: get_optionals passes over a plugin instruction
GetOptionalsPlugin ==
    /\ method = "get_optionals"
    /\ AtInstruction
    /\ instruction_type(Current) = PLUGIN
    /\ stack' = NextInstruction(stack)
    /\ UNCHANGED <<main_vars, reexec_vars, parsing_vars, ensure_vars,
                   packages, method, optionals, executed, ended, optional_names>>

\* wsconfig.py lines 191-195: the name of an optional reference is appended,
\* and get_optionals is called on every reference
GetOptionalsReference ==
    /\ method = "get_optionals"
    /\ AtInstruction
    /\ instruction_type(Current) = REFERENCE
    /\ LET noted == IF Current.is_optional
                    THEN [stack EXCEPT ![Len(stack)].result = Append(@, Current.reference)]
                    ELSE stack
       IN  IF Len(stack) < MaxDepth
           THEN stack' = Append(noted, Frame(Current.reference)) /\ ended' = ended
           ELSE stack' = <<>> /\ ended' = "RuntimeError"
    /\ UNCHANGED <<main_vars, reexec_vars, parsing_vars, ensure_vars,
                   packages, method, optionals, executed, optional_names>>

\* wsconfig.py lines 195-196: the result is returned, and the caller extends
\* its own result with it
GetOptionalsReturn ==
    /\ method = "get_optionals"
    /\ Len(stack) > 0
    /\ ~AtInstruction
    /\ IF Len(stack) = 1
       THEN /\ stack' = <<>>
            /\ ended' = "returned"
            /\ optional_names' = Top.result
       ELSE /\ stack' = NextInstruction([SubSeq(stack, 1, Len(stack) - 1)
                                   EXCEPT ![Len(stack) - 1].result = @ \o Top.result])
            /\ UNCHANGED <<ended, optional_names>>
    /\ UNCHANGED <<main_vars, reexec_vars, parsing_vars, ensure_vars,
                   packages, method, optionals, executed>>

YamlNext ==
    \/ RunPlugin
    \/ RunReference
    \/ RunReturn
    \/ GetOptionalsPlugin
    \/ GetOptionalsReference
    \/ GetOptionalsReturn

Yaml == YamlInit /\ [][YamlNext]_vars

---------------------------------------------------------------------------
(* Vocabulary of the properties *)

\* every index path of a tree
RECURSIVE Paths(_)
Paths(items) ==
    UNION { {<<i>>} \cup { <<i>> \o q : q \in Paths(items[i].items) }
              : i \in 1..Len(items) }

Validated == pc # "validate"

\* the paths of the commands that name an action, and of the defines
ActionPaths ==
    { p \in Paths(document) :
        NodeAt(document, p).type = "Command" /\ ~IsDefine(NodeAt(document, p)) }
DefinePaths == { p \in Paths(document) : IsDefine(NodeAt(document, p)) }

\* p comes before q in document order (a selector before its body, a body
\* before the later siblings of its selector)
Before(p, q) ==
    \/ Len(p) < Len(q) /\ SubSeq(q, 1, Len(p)) = p
    \/ \E k \in 1..Len(p) :
         /\ k <= Len(q)
         /\ SubSeq(p, 1, k - 1) = SubSeq(q, 1, k - 1)
         /\ p[k] < q[k]

\* the selectors that enclose the node at p
Enclosing(p) == { SubSeq(p, 1, k) : k \in 1..(Len(p) - 1) }

\* a tag expression read as the specification words it: some clause has all its
\* atoms satisfied, a plain atom by membership, a `!` atom by absence
AtomSatisfied(atom, tagset) ==
    IF atom[1] = "!" THEN Tail(atom) \notin tagset ELSE atom \in tagset
SelectorMatches(selector, tagset) ==
    \E clause \in Range(selector.tagexpr.expr.items) :
        \A atom \in Range(clause.items) : AtomSatisfied(atom.value, tagset)

\* the selector at q was visited by the running traversal and matched the
\* working set it was yielded with
MatchedWhenVisited(q) ==
    \E i \in 1..Len(yielded) :
        /\ yielded[i].path = q
        /\ SelectorMatches(NodeAt(document, q), yielded[i].tags)

Invoked(p) == \E i \in 1..Len(log) : log[i].path = p

\* the walk of apply_document has run to its end, really running the plugins
WalkComplete == pc = "post_apply" /\ ~dry_run

---------------------------------------------------------------------------
(* C1: apply_document invokes a command's plugin if and only if every      *)
(* selector enclosing the command matched the working tag set when the     *)
(* selector was visited (some clause has all atoms satisfied; plain atom:  *)
(* tag in the set, `!` atom: tag not in the set).  A top-level command is  *)
(* always invoked.  "Only if" holds at every moment of a run, "if" once    *)
(* the walk has run to its end.                                            *)
C1_InvokedIffSelectorsMatched ==
    Validated =>
        \A p \in ActionPaths :
            /\ Invoked(p) => \A q \in Enclosing(p) : MatchedWhenVisited(q)
            /\ WalkComplete /\ (\A q \in Enclosing(p) : MatchedWhenVisited(q))
                 => Invoked(p)

\* a command nested two selectors deep was invoked, one of the selectors by a
\* negated atom
C1_Witness ==
    /\ WalkComplete
    /\ \E p \in ActionPaths :
         /\ Len(p) = 3
         /\ Invoked(p)
         /\ \E q \in Enclosing(p) :
              NodeAt(document, q).tagexpr.expr.items[1].items[1].value = S_notfoo

---------------------------------------------------------------------------
(* C2: a `define` before a selector in document order makes the defined    *)
(* tags active when the selector is evaluated, even when the seed lacks    *)
(* them; a `define` after a selector in document order never changes       *)
(* whether the selector's body is traversed: a tag that only later defines *)
(* supply is not in the set the selector is evaluated against.             *)

\* the defines that are earlier siblings of the node at p or of a selector
\* that encloses it
DefinesAbove(p) ==
    { d \in DefinePaths :
        /\ Len(d) <= Len(p)
        /\ SubSeq(d, 1, Len(d) - 1) = SubSeq(p, 1, Len(d) - 1)
        /\ d[Len(d)] < p[Len(d)] }

Defined(d) == Range(Tail(NodeAt(document, d).argv))

C2_DefineOrder ==
    Validated =>
        \A i \in 1..Len(yielded) :
            LET p == yielded[i].path
            IN  NodeAt(document, p).type = "Selector" =>
                  /\ \A d \in DefinesAbove(p) : Defined(d) \subseteq yielded[i].tags
                  /\ \A d \in DefinePaths :
                       Before(p, d) =>
                         \A t \in Defined(d) \cap yielded[i].tags :
                            \/ t \in tags
                            \/ \E e \in DefinePaths : Before(e, p) /\ t \in Defined(e)

\* `define bar` then a selector on `foo bar`, seed with foo and without bar:
\* the selector matched and its body was entered
C2_Witness ==
    /\ Validated
    /\ S_bar \notin tags
    /\ \E i \in 1..Len(yielded) :
         /\ yielded[i].path = <<2>>
         /\ <<1>> \in DefinePaths
         /\ <<2>> \in entered
         /\ ~SelectorMatches(NodeAt(document, <<2>>), tags)

---------------------------------------------------------------------------
(* C3: within one traversal the working tag set only grows: the set seen   *)
(* at any yielded node is a superset of the set seen at every earlier      *)
(* node (and of the seed), so a tag a `define` adds inside a matching      *)
(* selector's body is active for every node visited later, also for later  *)
(* siblings of the selector at a shallower nesting level.                  *)
C3_TagsOnlyGrow ==
    /\ \A i \in 1..Len(yielded) :
         /\ tags \subseteq yielded[i].tags
         /\ yielded[i].tags \subseteq work
         /\ \A j \in 1..i : yielded[j].tags \subseteq yielded[i].tags
    /\ Validated =>
         \A i \in 1..Len(yielded) : \A d \in DefinePaths :
            /\ Before(d, yielded[i].path)
            /\ Enclosing(d) \subseteq entered
            => Defined(d) \subseteq yielded[i].tags

\* a top-level node yielded after a define inside an earlier selector's body,
\* with the defined tag, which the seed lacks, in its set
C3_Witness ==
    /\ Validated
    /\ \E i \in 1..Len(yielded) : \E d \in DefinePaths :
         /\ Len(d) = 2
         /\ Len(yielded[i].path) = 1
         /\ Before(d, yielded[i].path)
         /\ S_bar \in yielded[i].tags
         /\ S_bar \notin tags

---------------------------------------------------------------------------
(* C4: processing `define t1 ... tn` changes the working tag set to        *)
(* exactly the old set plus {t1, ..., tn}, the tokens after the word       *)
(* `define` and nothing else, and the define is never yielded.             *)
C4_DefineAddsExactlyItsTags ==
    [][ (pc \in Passes /\ pos # <<>> /\ IsDefine(Item)) =>
          /\ work' = work \cup Range(Tail(Item.argv))
          /\ yielded' = yielded ]_vars

---------------------------------------------------------------------------
(* C5: the traversal yields the reachable nodes in document order, depth   *)
(* first, a selector's body before the selector's later siblings, each     *)
(* reachable command exactly once, and apply_document invokes the plugins  *)
(* in exactly that order.                                                  *)

IsYieldedCommand(y) == NodeAt(document, y.path).type = "Command"

C5_DocumentOrder ==
    Validated =>
        /\ \A i, j \in 1..Len(yielded) :
             i < j => Before(yielded[i].path, yielded[j].path)
        /\ \A i \in 1..Len(yielded) : Enclosing(yielded[i].path) \subseteq entered
        /\ log # <<>> =>
             [i \in 1..Len(log) |-> log[i].path]
               = [i \in 1..Len(SelectSeq(yielded, IsYieldedCommand)) |->
                    SelectSeq(yielded, IsYieldedCommand)[i].path]
        /\ WalkComplete =>
             Len(log) = Cardinality({ p \in ActionPaths : Enclosing(p) \subseteq entered })

\* a command in a selector's body was invoked first, a later sibling of the
\* selector second
C5_Witness ==
    /\ WalkComplete
    /\ Len(log) = 2
    /\ Len(log[1].path) = 2
    /\ Len(log[2].path) = 1

---------------------------------------------------------------------------
(* C6: firstpass, find_variables and apply_document each work on their own *)
(* copy of the seed: no step of a pass changes the caller's tag set,       *)
(* whatever defines the document holds, and every pass starts from the     *)
(* caller's set, so tags defined in one pass are not active at the start   *)
(* of the next.                                                            *)
C6_SeedUnchanged ==
    [][ /\ pc # "validate" => tags' = tags
        /\ (pc' \in Passes /\ pc \notin {pc', "prompt"}) => work' = tags' ]_vars

\* apply_document starts on a document whose first item is `define bar`, which
\* the two passes before it have processed: bar is not active
C6_Witness ==
    /\ pc = "apply_document"
    /\ pos = <<1>>
    /\ yielded = <<>>
    /\ IsDefine(NodeAt(document, <<1>>))
    /\ S_bar \notin work

---------------------------------------------------------------------------
(* C7: when an action fails and the operator answers "n", the run ends     *)
(* with a nonzero exit status and no action after the failed one in        *)
(* document order is ever invoked.                                         *)
C7_AbortStopsRun ==
    yn = "n" =>
        /\ pc = "exit"
        /\ exitcode = 1
        /\ log # <<>>
        /\ Last(log).path = failed
        /\ \A i \in 1..Len(log) : ~Before(failed, log[i].path)
        /\ ~ENABLED Next

\* the run was aborted with a top-level command after the failed one not invoked
C7_Witness ==
    /\ yn = "n"
    /\ \E p \in ActionPaths : Len(p) = 1 /\ Before(failed, p) /\ ~Invoked(p)

---------------------------------------------------------------------------
(* C8: when an action fails and the operator answers "y" or gives the      *)
(* empty answer, the walk proceeds to the node that follows the failed     *)
(* command in document order; the failed action is not invoked again (no   *)
(* command is ever invoked twice).                                         *)
C8_ContinueProceeds ==
    /\ [](\A i, j \in 1..Len(log) : i # j => log[i].path # log[j].path)
    /\ [][ (pc = "prompt" /\ yn' \in {"y", ""}) =>
             /\ pc' = "apply_document"
             /\ log' = log
             /\ \A p \in Paths(document) :
                  Before(failed, p) => pos' # <<>> /\ (p = pos' \/ Before(pos', p))
             /\ pos' # <<>> => Before(failed, pos') ]_vars

\* a link failed, the operator gave the empty answer, and the remind after it ran
C8_Witness ==
    /\ yn = ""
    /\ Len(log) = 2
    /\ log[1].name = S_link
    /\ log[2].name = S_remind

---------------------------------------------------------------------------
(* C9: during apply_document the operator's abort is the only path that    *)
(* stops a run mid-document: whatever goes wrong inside a plugin's run,    *)
(* every later reachable command is still attempted unless the operator    *)
(* answered "n" to a failure prompt.                                       *)
C9_OnlyAbortStopsWalk ==
    (pc = "exit" /\ log # <<>>) => (yn = "n" \/ pos = <<>>)

---------------------------------------------------------------------------
(* C10: for every plugin, each kind of action failure (the subprocess      *)
(* exits nonzero, the subprocess fails to spawn, the plugin signals        *)
(* failure by its return value) reaches apply_document as an apply error   *)
(* and leads to the continue/abort prompt.                                 *)
C10_FailuresReachPrompt ==
    ran.cause \in {"returncode", "spawn", "return value"} =>
        pc = "prompt" \/ (pc = "exit" /\ yn = "n")

---------------------------------------------------------------------------
(* C11: a configuration error rejects the whole document before any action *)
(* runs: if any command anywhere in the document, also one under a         *)
(* selector that would not match, names an action that is not in the       *)
(* plugin registry or is a bare `sudo`, validate raises ConfigError and no *)
(* plugin's run is invoked (nothing is printed, registered or called       *)
(* either).                                                                *)

\* the word of a command that names its action
ActionName(argv) == IF argv[1] = S_sudo THEN argv[2] ELSE argv[1]

Misconfigured(node) ==
    /\ node.type = "Command"
    /\ node.argv[1] # S_define
    /\ IF node.argv = <<S_sudo>> THEN TRUE ELSE ActionName(node.argv) \notin PLUGINS

HasConfigError(doc) == \E p \in Paths(doc) : Misconfigured(NodeAt(doc, p))

C11_ConfigErrorBeforeActions ==
    (Validated /\ HasConfigError(document)) =>
        /\ pc = "exit"
        /\ error = "ConfigError"
        /\ log = <<>>
        /\ printed = <<>>
        /\ called = <<>>
        /\ rounds = <<>>
        /\ state = RunState0

\* the document was rejected for a command in the body of a selector that does
\* not match, after a first command that is in order
C11_Witness ==
    /\ error = "ConfigError"
    /\ ~Misconfigured(NodeAt(document, <<1>>))
    /\ ~IsDefine(NodeAt(document, <<1>>))
    /\ \E p \in Paths(document) :
         /\ Len(p) > 1
         /\ Misconfigured(NodeAt(document, p))
         /\ ~SelectorMatches(NodeAt(document, <<p[1]>>), tags)

---------------------------------------------------------------------------
(* C12: a `sys:` tag is environment-only: the document cannot define it    *)
(* and the user cannot toggle it, so at every point of every traversal the *)
(* `sys:` tags of the working set are exactly the `sys:` tags the          *)
(* environment detection supplied (the ones in the set main passes to the  *)
(* traversal: the tags the user gives hold no `sys:` tag here).            *)

SysTags(tagset) == { t \in tagset : startswith(t, S_sys) }

C12_SysTagsFromEnvironment ==
    pc \in Passes \cup {"prompt"} => SysTags(work) = SysTags(tags)

---------------------------------------------------------------------------
(* C13: after the walk of an apply run completes, every post-apply         *)
(* callback registered during the walk is invoked exactly once, in         *)
(* registration order, with the final run state; a callback that several   *)
(* actions register (several `remind` commands) is in the list only once;  *)
(* no callback runs before the last action has been attempted.             *)
C13_PostApplyOnce ==
    /\ [](/\ \A i, j \in 1..Len(state.post_apply) :
                i # j => state.post_apply[i] # state.post_apply[j]
          /\ Len(called) <= Len(state.post_apply)
          /\ called = SubSeq(state.post_apply, 1, Len(called))
          /\ called # <<>> => pc \in {"post_apply", "exit"} /\ pos = <<>>
          /\ (pc = "exit" /\ exitcode = 0) => called = state.post_apply
          /\ (\E i \in 1..Len(log) : log[i].name = S_remind)
                => "RemindPlugin.post_apply_handler" \in Range(state.post_apply))
    /\ [][ called' # called =>
             /\ pc = "post_apply"
             /\ Len(called') = Len(called) + 1
             /\ state' = state
             /\ log' = log ]_vars

\* two remind commands ran and the run ended with their one handler called once
C13_Witness ==
    /\ pc = "exit"
    /\ exitcode = 0
    /\ Cardinality({ i \in 1..Len(log) : log[i].name = S_remind }) = 2
    /\ called = <<"RemindPlugin.post_apply_handler">>

---------------------------------------------------------------------------
(* C14: in dry-run mode apply_document invokes no plugin's run, for any    *)
(* document and any tag set; each reachable command is printed instead,    *)
(* and the walk reaches the same commands in the same order as a real run  *)
(* does: what a dry run prints and what a real run invokes are both, at    *)
(* every moment, the beginning of one and the same list of commands, and   *)
(* the whole of it when the walk has run to its end.                       *)

\* the list both runs are compared with: the commands in document order, a
\* selector's body only if the selector matches the tags active when it is met,
\* a define adding its words to the active tags
RECURSIVE WalkFrom(_, _, _, _)
WalkFrom(items, i, prefix, acc) ==
    IF i > Len(items) THEN acc
    ELSE LET node == items[i]
             p == Append(prefix, i)
         IN  IF IsDefine(node)
             THEN WalkFrom(items, i + 1, prefix,
                           [acc EXCEPT !.tags = @ \cup Range(node.argv)])
             ELSE IF node.type = "Command"
             THEN WalkFrom(items, i + 1, prefix, [acc EXCEPT !.cmds = Append(@, p)])
             ELSE IF SelectorMatches(node, acc.tags)
             THEN WalkFrom(items, i + 1, prefix, WalkFrom(node.items, 1, p, acc))
             ELSE WalkFrom(items, i + 1, prefix, acc)

ReachableCommands(doc, seed) ==
    WalkFrom(doc, 1, <<>>, [cmds |-> <<>>, tags |-> seed]).cmds

PathsOf(entries) == [i \in 1..Len(entries) |-> entries[i].path]
IsPrefix(s, t) == Len(s) <= Len(t) /\ s = SubSeq(t, 1, Len(s))

C14_DryRunInvokesNothing ==
    Validated =>
        /\ dry_run =>
             /\ log = <<>>
             /\ state.post_apply = <<>>
             /\ state.reminders = <<>>
             /\ called = <<>>
             /\ pc # "prompt"
             /\ error = ""
             /\ IsPrefix(PathsOf(printed), ReachableCommands(document, tags))
             /\ pc \in {"post_apply", "exit"} =>
                  PathsOf(printed) = ReachableCommands(document, tags)
             /\ \A i \in 1..Len(printed) :
                  NodeAt(document, printed[i].path).argv = <<S_remind, S_42>> =>
                    printed[i].text = <<"e","x","e","c","(","r","e","m","i","n","d",
                                        " ","4","2",")">>
        /\ ~dry_run =>
             /\ printed = <<>>
             /\ IsPrefix(PathsOf(log), ReachableCommands(document, tags))
             /\ pc = "post_apply" => PathsOf(log) = ReachableCommands(document, tags)

\* a dry run has ended: it printed the one command that is reachable and left
\* out the command in the body of a selector that does not match
C14_Witness ==
    /\ dry_run
    /\ pc = "exit"
    /\ Len(printed) = 1
    /\ \E p \in ActionPaths : Len(p) = 2 /\ p # printed[1].path

---------------------------------------------------------------------------
(* Vocabulary of the properties of tag discovery *)

Strip(atom) == IF Len(atom) > 0 /\ atom[1] = "!" THEN Tail(atom) ELSE atom

IsSysTag(t) == Len(t) >= 4 /\ <<t[1], t[2], t[3], t[4]>> = <<"s", "y", "s", ":">>

SelectorPaths == { p \in Paths(document) : NodeAt(document, p).type = "Selector" }

\* the tags a selector names, `!` stripped
TagsOf(selector) ==
    UNION { { Strip(a.value) : a \in Range(clause.items) }
              : clause \in Range(selector.tagexpr.expr.items) }

\* a clause is satisfiable under sysOnly evaluation: each of its sys: atoms is
\* satisfied, whatever its other atoms
SysSatisfiable(clause, tagset) ==
    \A a \in Range(clause.items) :
        IsSysTag(Strip(a.value)) => AtomSatisfied(a.value, tagset)

\* what a visited selector contributes: y is [path, tags]
CollectedAt(y) ==
    UNION { IF SysSatisfiable(clause, y.tags)
            THEN { t \in { Strip(a.value) : a \in Range(clause.items) } :
                     ~IsSysTag(t) /\ t \notin y.tags }
            ELSE {}
              : clause \in Range(NodeAt(document, y.path).tagexpr.expr.items) }

VisitedSelectors ==
    { i \in 1..Len(yielded) : NodeAt(document, yielded[i].path).type = "Selector" }

---------------------------------------------------------------------------
(* C15: firstpass returns exactly the union, over every selector visited   *)
(* and every clause of it that is satisfiable under sysOnly evaluation     *)
(* against the tags active when the selector is visited, of the clause's   *)
(* atoms (`!` stripped) that are not `sys:` and not active at that point.  *)
(* The result never holds a `sys:` tag or a tag of the seed; for           *)
(* `sys:test foo { bar {} }` it is {} with seed {} and {foo} with seed     *)
(* {sys:test}.                                                             *)
C15_FirstpassResult ==
    /\ discovered = UNION { CollectedAt(yielded[i]) : i \in VisitedSelectors }
    /\ \A k \in 1..Len(rounds) :
         /\ rounds[k].found \cap rounds[k].seed = {}
         /\ \A t \in rounds[k].found : ~IsSysTag(t)
    /\ (document = SysTestDocument /\ rounds # <<>>) =>
         /\ rounds[1].seed = {} => rounds[1].found = {}
         /\ rounds[1].seed = {S_systest} => rounds[1].found = {S_foo}

\* sys:t foo { bar {} } with seed {sys:t}: the first call returned {foo}
C15_Witness ==
    /\ document = SysTestDocument
    /\ rounds # <<>>
    /\ rounds[1] = [seed |-> {S_systest}, found |-> {S_foo}]

---------------------------------------------------------------------------
(* C16: firstpass collects the tags of a nested selector only when every   *)
(* enclosing selector fully matches the tags active at that point: a       *)
(* selector is visited if and only if all selectors around it were visited *)
(* and matched.  For `foo { bar {} }` the result is {foo} with an empty    *)
(* seed and {bar} with seed {foo}; a tag that a preceding `define` made    *)
(* active opens the nested selector and is not collected from it.          *)
C16_NestedNeedsFullMatch ==
    /\ \A i \in VisitedSelectors :
         /\ \A q \in Enclosing(yielded[i].path) : MatchedWhenVisited(q)
         /\ \A d \in DefinesAbove(yielded[i].path) :
              Defined(d) \cap CollectedAt(yielded[i]) = {}
    /\ \A t \in discovered :
         \E i \in VisitedSelectors :
            /\ t \in TagsOf(NodeAt(document, yielded[i].path))
            /\ t \notin yielded[i].tags
    /\ pos = <<>> =>
         \A p \in SelectorPaths :
            (\A q \in Enclosing(p) : MatchedWhenVisited(q))
              => \E i \in VisitedSelectors : yielded[i].path = p
    /\ (rounds # <<>> /\ document = FooBarDocument) =>
         /\ rounds[1].seed = {} => rounds[1].found = {S_foo}
         /\ rounds[1].seed = {S_foo} => rounds[1].found = {S_bar}
    /\ (rounds # <<>> /\ document = DefineFooDocument /\ rounds[1].seed = {}) =>
         rounds[1].found = {S_bar}
    /\ (rounds # <<>> /\ document = FooDefineDocument /\ rounds[1].seed = {}) =>
         rounds[1].found = {S_foo}

\* `define foo` then `foo { bar {} }` with an empty seed: the first call
\* returned {bar}
C16_Witness ==
    /\ document = DefineFooDocument
    /\ rounds # <<>>
    /\ rounds[1] = [seed |-> {}, found |-> {S_bar}]

---------------------------------------------------------------------------
(* C17: iterating tag discovery converges: from any seed, running          *)
(* firstpass and adding all returned tags to the seed again and again, the *)
(* seed never shrinks, and after at most as many rounds as the document    *)
(* has distinct non-sys atoms a round returns the empty set.               *)

NonSysAtoms ==
    { t \in UNION { TagsOf(NodeAt(document, p)) : p \in SelectorPaths } : ~IsSysTag(t) }

C17_DiscoveryConverges ==
    /\ \A k \in 1..(Len(rounds) - 1) :
         /\ rounds[k].seed \subseteq rounds[k + 1].seed
         /\ rounds[k + 1].seed = rounds[k].seed \cup rounds[k].found
    /\ rounds # <<>> => Last(rounds).seed \subseteq tags
    /\ \A k \in 1..Len(rounds) :
         rounds[k].found # {} => k <= Cardinality(NonSysAtoms)
    /\ Len(rounds) <= Cardinality(NonSysAtoms) + 1
    /\ pc = "settled" <=> (rounds # <<>> /\ Last(rounds).found = {})
    /\ pc = "settled" \/ ENABLED DiscoveryNext

\* a document with two non-sys atoms: two rounds returned tags, the third none
C17_Witness ==
    /\ pc = "settled"
    /\ Cardinality(NonSysAtoms) = 2
    /\ Len(rounds) = 3
    /\ rounds[1].found # rounds[2].found

---------------------------------------------------------------------------
(* C18: tag discovery round trip: when firstpass is run, exactly the       *)
(* returned tags are added to the seed and firstpass is run again, every   *)
(* tag of the second result is an atom of a selector nested inside a       *)
(* selector whose tags the first run returned; the second run never        *)
(* returns a tag that occurs only in top-level selectors.                  *)

\* the tags of the selectors nested inside a selector that names a tag of `found`
NestedUnder(found) ==
    UNION { TagsOf(NodeAt(document, p)) :
              p \in { r \in SelectorPaths :
                        \E q \in Enclosing(r) :
                            TagsOf(NodeAt(document, q)) \cap found # {} } }

C18_SecondResultNested ==
    Len(rounds) >= 2 => rounds[2].found \subseteq NestedUnder(rounds[1].found)

---------------------------------------------------------------------------
(* C19: find_variables returns each placeholder `@@name@@` that occurs in  *)
(* the resolved arguments of a reachable command exactly once, however     *)
(* often and in however many commands it occurs, and no placeholder that   *)
(* occurs in unreachable commands only; at execution every occurrence of a *)
(* placeholder in an argument is replaced by the value supplied for it.    *)

\* the placeholders that occur in a string: @@, one or more word characters, @@
Placeholders(s) ==
    { SubSeq(s, i, j + 1) : <<i, j>> \in
        { ij \in (1..Len(s)) \X (1..Len(s)) :
            /\ ij[1] + 2 < ij[2] /\ ij[2] < Len(s)
            /\ s[ij[1]] = "@" /\ s[ij[1] + 1] = "@"
            /\ s[ij[2]] = "@" /\ s[ij[2] + 1] = "@"
            /\ \A k \in (ij[1] + 2)..(ij[2] - 1) : s[k] \in WordChars } }

\* the placeholders in the arguments of the reachable commands
ReachablePlaceholders ==
    UNION { UNION { Placeholders(a) : a \in Range(NodeAt(document, p).args) }
              : p \in Range(ReachableCommands(document, tags)) }

\* find_variables has returned
VariablesKnown == pc \in {"variables", "apply_document", "prompt", "post_apply"}

---------------------------------------------------------------------------
(* C20: in an apply run every variable value is collected from the         *)
(* operator before the execution pass begins: no plugin's run is invoked   *)
(* before the last variable prompt has been answered, and no variable      *)
(* prompt occurs after the first plugin invocation.                        *)

\* apply_document has been called
ExecutionBegun ==
    \/ pc \in {"apply_document", "prompt", "post_apply"}
    \/ log # <<>>
    \/ printed # <<>>

C20_VariablesBeforeExecution ==
    /\ [](ExecutionBegun => vars_found \subseteq DOMAIN state.variables)
    /\ [][ ExecutionBegun => state'.variables = state.variables ]_vars
    /\ [][ state'.variables # state.variables => log = <<>> /\ log' = <<>> ]_vars

\* two variables were asked for and a plugin has been invoked since
C20_Witness ==
    /\ log # <<>>
    /\ DOMAIN state.variables = {S_var, S_var2}

---------------------------------------------------------------------------
\* a process started on a sentinel command line that names a plugin with an
\* implementation
Dispatched ==
    /\ process.pc = "exited"
    /\ IsSentinel(process.argv)
    /\ Len(process.argv) >= 3
    /\ process.argv[3] \in WithImpl

\* C21: a process whose first argument is the sentinel calls the named
\* plugin's implementation with the remaining arguments and performs no other
\* step of main (no argument parsing, no environment detection, no document
\* parsing, no validation); it exits with 0 when the implementation returned
\* nothing and with the implementation's return code 1 when it returned that.
C21_SentinelDispatch ==
    Dispatched =>
        /\ process.steps = <<"impl">>
        /\ process.returned
             \in impl(process.argv[3], SubSeq(process.argv, 4, Len(process.argv)))
        /\ process.returned.ends = "None" => process.exitcode = 0
        /\ process.returned.ends = "result" => process.exitcode = 1

C21_Witness ==
    /\ Dispatched
    /\ process.parent = "sudo"
    /\ process.argv = cmdline(S_link, <<S_x, S_x, S_42>>)
    /\ process.returned.ends = "result"
    /\ process.exitcode = 1

---------------------------------------------------------------------------
\* the call of execute_impl has ended at its call site with and without sudo,
\* and with sudo the child process ran the implementation
BothEnded ==
    /\ site[FALSE] # Pending
    /\ site[TRUE] # Pending
    /\ process.pc = "exited"

\* C22: when the implementation of a self re-exec capable plugin fails, the
\* call made directly and the call made through the sentinel end the same way
\* for apply_document: the one reaches the continue/abort prompt exactly when
\* the other does.
C22_SamePromptBothPaths ==
    (BothEnded /\ request.world.ends # "None") =>
        (AfterRun(site[FALSE].ends) = "prompt" <=> AfterRun(site[TRUE].ends) = "prompt")

---------------------------------------------------------------------------
\* the atoms of a selector's tag expression, as written
AtomsOf(selector) ==
    UNION { Range(clause.items) : clause \in Range(selector.tagexpr.expr.items) }

\* the yields of the running traversal that are selectors
VisitedSelectorIndexes ==
    { i \in 1..Len(yielded) : NodeAt(document, yielded[i].path).type = "Selector" }

\* C23: for every selector firstpass has visited, evaluated against the working
\* set it was yielded with: in sysOnly mode an atom outside the sys: namespace
\* is true, negated or not, active or not; a sys: atom evaluates as in normal
\* mode, by membership; a clause passes exactly when all its sys: atoms are
\* satisfied, and the expression when one of its clauses does.
C23_SysOnlyMatch ==
    \A i \in VisitedSelectorIndexes :
        LET selector == NodeAt(document, yielded[i].path)
            active == yielded[i].tags
        IN  /\ \A atom \in AtomsOf(selector) :
                 IF IsSysTag(Strip(atom.value))
                 THEN /\ test_match(atom, active, TRUE) = test_match(atom, active, FALSE)
                      /\ test_match(atom, active, TRUE) = AtomSatisfied(atom.value, active)
                 ELSE test_match(atom, active, TRUE)
            /\ \A clause \in Range(selector.tagexpr.expr.items) :
                 test_match(clause, active, TRUE) <=> SysSatisfiable(clause, active)
            /\ test_match(selector.tagexpr.expr, active, TRUE)
                 <=> \E clause \in Range(selector.tagexpr.expr.items) :
                        SysSatisfiable(clause, active)

\* a visited selector with a negated atom whose tag is active, and one with a
\* negated sys: atom that fails
C23_Witness ==
    /\ \E i \in VisitedSelectorIndexes :
         \E atom \in AtomsOf(NodeAt(document, yielded[i].path)) :
            /\ atom.value[1] = "!"
            /\ ~IsSysTag(Strip(atom.value))
            /\ Strip(atom.value) \in yielded[i].tags
            /\ test_match(NodeAt(document, yielded[i].path).tagexpr.expr, yielded[i].tags, TRUE)
            /\ ~test_match(NodeAt(document, yielded[i].path).tagexpr.expr, yielded[i].tags, FALSE)
    /\ \E i \in VisitedSelectorIndexes :
         \E atom \in AtomsOf(NodeAt(document, yielded[i].path)) :
            /\ atom.value[1] = "!"
            /\ IsSysTag(Strip(atom.value))
            /\ ~test_match(atom, yielded[i].tags, TRUE)

---------------------------------------------------------------------------
\* main was called with the file alone and has printed its listing
Listing == pc = "exit" /\ listed # <<>>

\* the tags of the listing: each line after the heading, less its indentation
ListedTags == { SubSeq(listed[i], 3, Len(listed[i])) : i \in 2..Len(listed) }

\* the result of the one call of firstpass main made, and the seed of that call
OnePass == rounds[1]

\* the tag starts with one of the letters A to Z
Capitalised(t) ==
    \E c \in {"A","B","C","D","E","F","G","H","I","J","K","L","M",
               "N","O","P","Q","R","S","T","U","V","W","X","Y","Z"} : t[1] = c

\* C24 as claimed: called with the file alone, main lists exactly the tags
\* that one pass of tag discovery with the environment tags as seed returned.
C24_ListsDiscovered ==
    (Listing /\ tags \in EnvTagSets) =>
        /\ Len(rounds) = 1
        /\ OnePass.seed = tags
        /\ ListedTags = OnePass.found

\* C24: called with the file alone, main runs one pass of tag discovery with
\* the environment tags as seed and lists, after the heading and once each,
\* exactly those returned tags that start with an uppercase letter.
C24_ListsUppercaseDiscovered ==
    (Listing /\ tags \in EnvTagSets) =>
        /\ Len(rounds) = 1
        /\ OnePass.seed = tags
        /\ listed[1] = S_optional
        /\ ListedTags = { t \in OnePass.found : Capitalised(t) }
        /\ Len(listed) = 1 + Cardinality(ListedTags)
        /\ log = <<>> /\ printed = <<>> /\ called = <<>>

\* the pass returned Foo, foo and bar, and Foo alone was listed
C24_Witness ==
    /\ Listing
    /\ tags \in EnvTagSets
    /\ OnePass.found = {S_Foo, S_foo, S_bar}
    /\ listed = <<S_optional, <<" ", " ">> \o S_Foo>>

---------------------------------------------------------------------------
\* the document a layout stands for: the selector with its body, and the
\* command after it
Meant(l) ==
    <<Selector(TagExpr(<<And(<<Str(S_bar)>>)>>),
               IF l.body = <<>> THEN <<>> ELSE <<Command(<<l.body>>)>>)>>
        \o (IF l.after = <<>> THEN <<>> ELSE <<Command(<<l.after>>)>>)

---------------------------------------------------------------------------
\* apply_document is walking the document, or has walked it to the end
Applying == pc \in {"apply_document", "prompt", "post_apply"}

\* paths of the commands the running traversal has handed to its pass, in order
RECURSIVE CommandPaths(_)
CommandPaths(entries) ==
    IF entries = <<>> THEN <<>>
    ELSE IF IsYieldedCommand(Head(entries))
    THEN <<Head(entries).path>> \o CommandPaths(Tail(entries))
    ELSE CommandPaths(Tail(entries))

\* C26: with the same document and seed, apply_document is handed the
\* commands find_variables was handed, in the same order (all of them once it
\* has walked the document to the end); every placeholder in the arguments of
\* a command it is handed has a value in the variable mapping, and the
\* substitution never raises KeyError.
C26_SameCommandsBothPasses ==
    /\ Applying =>
         /\ IsPrefix(CommandPaths(yielded), scanned)
         /\ pc = "post_apply" => CommandPaths(yielded) = scanned
         /\ \A p \in Range(CommandPaths(yielded)) :
              ArgsVariables(NodeAt(document, p).args) \subseteq DOMAIN state.variables
         /\ vars_found = DOMAIN state.variables
    /\ error # "KeyError"

\* apply_document has walked a document to its end in which find_variables was
\* handed three commands, one of them in the body of a selector, two variables
C26_Witness ==
    /\ pc = "post_apply"
    /\ Len(scanned) = 3
    /\ \E i \in 1..3 : Len(scanned[i]) = 2
    /\ Cardinality(DOMAIN state.variables) = 2
    /\ CommandPaths(yielded) = scanned

---------------------------------------------------------------------------
\* the node at p was met by the running traversal: yielded, or a define
Met(p) ==
    \/ IsDefine(NodeAt(document, p))
    \/ \E i \in 1..Len(yielded) : yielded[i].path = p

\* a traversal is running, or has ended without the process ending
Walking == pc \in Passes \cup {"variables", "prompt", "post_apply"}

\* C27: a selector's match is decided once, when it is visited. A body is
\* entered only if the selector matched then, and once entered every child is
\* met in turn, whatever the defines of the body have made of the selector's
\* expression since; the traversal never stands inside the body of a selector
\* that did not match, and the working set changes only by the define the
\* traversal stands at, which adds its words: a define in the body of a
\* selector that did not match changes nothing.
C27_MatchDecidedOnce ==
    /\ [](Walking =>
            /\ \A q \in entered :
                 /\ MatchedWhenVisited(q)
                 /\ \A k \in 1..Len(NodeAt(document, q).items) :
                      (pos = <<>> \/ Before(Append(q, k), pos)) => Met(Append(q, k))
            /\ pos # <<>> => Enclosing(pos) \subseteq entered)
    /\ [][(pc \in Passes /\ pc' = pc /\ work' # work) =>
            /\ pos # <<>>
            /\ IsDefine(Item)
            /\ Enclosing(pos) \subseteq entered
            /\ work' = work \cup Range(Item.argv)]_vars

\* `!foo { define foo, remind 42 }` was entered, foo was defined in it, the
\* remind after the define was invoked all the same; the `!foo { define bar }`
\* that follows did not match, and bar is not in the working set
C27_Witness ==
    /\ Len(document) = 2
    /\ document[1].tagexpr = TagExpr(<<And(<<Str(S_notfoo)>>)>>)
    /\ document[2].tagexpr = TagExpr(<<And(<<Str(S_notfoo)>>)>>)
    /\ NodeAt(document, <<1, 1>>).argv = <<S_define, S_foo>>
    /\ NodeAt(document, <<2, 1>>).argv = <<S_define, S_bar>>
    /\ pc = "post_apply"
    /\ entered = {<<1>>}
    /\ ~SelectorMatches(NodeAt(document, <<1>>), work)
    /\ Invoked(<<1, 2>>)
    /\ Met(<<2>>)
    /\ S_foo \in work
    /\ S_bar \notin work

---------------------------------------------------------------------------
\* C28: once the operator has answered "n" the process is over and no
\* post-apply callback has been or will be called, whatever callbacks the
\* actions that ran before the failed one have registered.
C28_AbortCallsNoHandler ==
    yn = "n" =>
        /\ called = <<>>
        /\ pc = "exit"
        /\ ~ENABLED PostApply

\* the run was aborted after a remind had registered its handler and its reminder
C28_Witness ==
    /\ yn = "n"
    /\ state.post_apply = <<"RemindPlugin.post_apply_handler">>
    /\ state.reminders # <<>>
    /\ \E i \in 1..Len(log) : log[i].name = S_remind /\ Before(log[i].path, failed)

---------------------------------------------------------------------------
(* C29 *)

\* the content has l as one of its lines: l stands between the start of the
\* content or a newline, and a newline or the end of the content
HasLine(content, l) ==
    \E i \in 1..(Len(content) + 1) :
        /\ i = 1 \/ content[i - 1] = "\n"
        /\ i + Len(l) - 1 <= Len(content)
        /\ SubSeq(content, i, i + Len(l) - 1) = l
        /\ i + Len(l) > Len(content) \/ content[i + Len(l)] = "\n"

\* C29: ensure_line is idempotent: after one run with a file and a line the
\* file has that line among its lines, and every further run with the same
\* file and line leaves the content of the file as it is.
C29_EnsureLineIdempotent ==
    /\ [](runs >= 1 => HasLine(file, line))
    /\ [][runs >= 1 => file' = file]_vars

---------------------------------------------------------------------------
(* C30 *)

\* C30: in the YAML variant Package.run and Package.get_optionals terminate for
\* every package set load_yaml accepts, also when packages refer to each other
\* in a cycle or a package refers to itself (no call ends in the recursion
\* limit); run enters a referenced package exactly when the reference is
\* required or its name is among the selected optionals.
C30_TerminatesOnEveryPackageSet ==
    /\ [](ended # "RuntimeError")
    /\ [][RunReference =>
            (Len(stack') = Len(stack) + 1
               <=> (~Current.is_optional \/ Current.reference \in optionals))]_vars

=============================================================================
